---------------------------- MODULE Spec2Model ----------------------------
(***************************************************************************)
(* Lock-based concurrent structures of the repository:                     *)
(*   - the ticket lock of HW8exercise31/mutex-nostarve.c and its driver,   *)
(*   - the approximate counter of exercise29/ch29_all.c (Q3),              *)
(*   - the linked list of exercise29/ch29_all.c (Q4), single-lock and      *)
(*     hand-over-hand.                                                     *)
(* Every C statement that touches shared state is one step of its thread.  *)
(* A POSIX semaphore is a natural number; sem_wait is enabled when it is   *)
(* positive; which of several waiters passes is not determined.            *)
(***************************************************************************)
EXTENDS Integers, Sequences, FiniteSets, TLC

(***************************************************************************)
(* Bounds of the model and constants of the program.                       *)
(***************************************************************************)
MAX_THREADS == 10

NumWorkers == 3

Iters == 4

LongWorkers == 2

LongIters == 10

CounterThreads == 2

CounterIters == 4

MaxThreshold == 3

MaxTid == 3

ShardIters == 2

ListThreads == 2

ListOps == 3

HashThreads == 2

HashOps == 2

MaxBuckets == 2

MaxFail == 1

RunThreads == 2

RunIters == 2

RunHashOps == 1

\* the greatest int of the build
IntMax == 2147483647

\* hfunc is called with the keys -MaxKeyArg..MaxKeyArg and those as near
\* to the ends of int
MaxKeyArg == 3

\* the ticket lock with more callers than slots: WindowWorkers workers, each
\* WindowIters times through its loop, on 1..MaxSlots slots
WindowWorkers == 3

WindowIters == 2

MaxSlots == 2

\* main of reader-writer.c with RWReaders readers of ReaderIters iterations
\* and RWWriters writers of WriterIters iterations
RWReaders == 2

ReaderIters == 1

RWWriters == 2

WriterIters == 1

VARIABLES
  \* ---- ticket lock (mutex-nostarve.c) ----
  tw,          \* number of worker threads main creates
  tn,          \* iterations of each worker's loop
  tb,          \* whether the histories waitq and bypass are kept in this run
  tslots,      \* number of slots of queue[]: MAX_THREADS of the build
  room,        \* sem_t room
  mutex,       \* sem_t mutex
  queue,       \* sem_t queue[MAX_THREADS]
  ticket,      \* int ticket
  turn,        \* int turn
  counter,     \* int counter
  tpc,         \* program counter of each worker
  my_ticket,   \* local my_ticket of ns_mutex_acquire
  ti,          \* local i of worker
  ttmp,        \* the value of counter loaded by counter++
  tmain,       \* main: "run" until it has joined every worker, then "end"
  grants,      \* history: tickets in the order their Sem_wait(queue[..]) returned
  waitq,       \* history: workers inside ns_mutex_acquire, in call order
  bypass       \* history: grants to others since the worker called acquire

VARIABLES
  \* ---- approximate counter (ch29_all.c, Q3) ----
  cnt,         \* number of worker threads run_q3 creates
  cit,         \* iters of each q3_worker
  cth,         \* c->threshold
  cncpu,       \* c->ncpu
  ctid,        \* a->tid of each q3_worker
  cglobal,     \* c->global
  cglock,      \* c->glock: 0 when free, else the thread that holds it
  clocal,      \* c->local[]
  cllock,      \* c->llock[]: 0 when free, else the thread that holds it
  cpc,         \* program counter of each q3_worker
  ci,          \* local i of q3_worker
  ccpu,        \* local cpu of approx_update
  cmain,       \* run_q3: "run", "joined", "g_read", "g_unlock", "end"
  cv,          \* local v of approx_get
  ctotal,      \* the value approx_get returned to run_q3
  capplied     \* history: number of local[cpu]++ executed so far

VARIABLES
  \* ---- linked list (ch29_all.c, Q4) ----
  lnt,         \* number of threads that use the list
  lno,         \* calls of list_insert and list_lookup made in a run
  lhoh,        \* L->hoh
  lhead,       \* L->head
  llock,       \* L->lock: 0 when free, else the thread that holds it
  nalloc,      \* number of nodes malloc has returned so far
  nkey,        \* key of each node
  nnext,       \* next of each node
  nlock,       \* lock of each node: 0 when free, else the holder
  lpc,         \* program counter of each thread
  lop,         \* the operation the thread runs, or ran last
  lkey,        \* its argument key
  ln,          \* local n of list_insert and of list_lookup
  lc,          \* local c of list_lookup
  lrv,         \* the value the last operation returned
  lops,        \* calls made so far, by all threads
  lmain,       \* the thread that created the others: "run" until it has
               \* joined them, then "end"
  linserted,   \* history: per key, the list_insert calls that returned 0
  lsnap,       \* history: keys inserted when the thread's lookup was called
  ldirty,      \* history: an insert was in progress during the lookup
  loverlap     \* history: two inserts have been in progress at once

VARIABLES
  \* ---- hash table (ch29_all.c, Q5 and Q6) ----
  hnt,         \* number of worker threads run_hash creates
  hnops,       \* n of each q56_worker
  hnb,         \* H->nb
  hper,        \* H->per_bucket
  hhead,       \* H->b[].head
  hblock,      \* H->b[].lock: 0 when free, else the thread that holds it
  hglock,      \* H->glock: 0 when free, else the thread that holds it
  hpc,         \* program counter of each q56_worker
  hi,          \* local i of q56_worker
  hk,          \* argument k of hash_insert
  hb,          \* local b of hash_insert
  hn,          \* local n of hash_insert
  hret,        \* what the last hash_insert gave its caller: "none" before
               \* the first return, then "void"
  hmain,       \* run_hash: "run" until it has joined every worker, then "end"
  hfailed      \* history: the keys whose malloc returned NULL

VARIABLES
  \* ---- a call of hfunc on a table of any size (ch29_all.c) ----
  fnbarg,      \* the nb given to hash_init
  fnb,         \* H->nb
  fk,          \* argument k of hfunc
  fb,          \* the value hfunc returned
  fpc          \* "none" when no such table is made, else "idle", "call",
               \* "overflow" or "ret"

VARIABLES
  \* ---- reader-writer lock (reader-writer.c) ----
  rnr,         \* number of reader threads main creates
  rnw,         \* number of writer threads main creates
  rrn,         \* iterations of each reader's loop
  rwn,         \* iterations of each writer's loop
  writelock,   \* sem_t writelock
  lock,        \* sem_t lock
  readers,     \* int readers
  shared_data, \* int shared_data
  rpc,         \* program counter of each thread
  ri,          \* local i of reader and of writer
  rtmp,        \* the value of shared_data loaded by shared_data++
  rmain        \* main: "run" until it has joined every thread, then "end"

VARIABLES
  \* ---- rendezvous (rendezvous.c) ----
  sem_a,       \* sem_t sem_a
  sem_b,       \* sem_t sem_b
  zpc,         \* program counter of thread_a and of thread_b
  zmain,       \* program counter of main, "none" when the program is not run
  stdout       \* the lines printed so far

tcfg == <<tw, tn, tb, tslots>>

tvars == <<tcfg, room, mutex, queue, ticket, turn, counter, tpc, my_ticket,
           ti, ttmp, tmain, grants, waitq, bypass>>

ccfg == <<cnt, cit, cth, cncpu, ctid>>

cvars == <<ccfg, cglobal, cglock, clocal, cllock, cpc, ci, ccpu, cmain, cv,
           ctotal, capplied>>

lnodes == <<nalloc, nkey, nnext, nlock>>

lhist == <<linserted, lsnap, ldirty, loverlap>>

lcfg == <<lnt, lno, lhoh>>

lvars == <<lcfg, lhead, llock, lnodes, lpc, lop, lkey, ln, lc, lrv, lops,
           lmain, lhist>>

hcfg == <<hnt, hnops, hnb, hper>>

hvars == <<hcfg, hhead, hblock, hglock, hpc, hi, hk, hb, hn, hret, hmain,
           hfailed>>

fvars == <<fnbarg, fnb, fk, fb, fpc>>

rcfg == <<rnr, rnw, rrn, rwn>>

rvars == <<rcfg, writelock, lock, readers, shared_data, rpc, ri, rtmp, rmain>>

zvars == <<sem_a, sem_b, zpc, zmain, stdout>>

vars == <<tvars, cvars, lvars, hvars, fvars, rvars, zvars>>

NotTicket == <<cvars, lvars, hvars, fvars, rvars, zvars>>

NotCounter == <<tvars, lvars, hvars, fvars, rvars, zvars>>

NotList == <<tvars, cvars, hvars, fvars, rvars, zvars>>

NotHash == <<tvars, cvars, lvars, fvars, rvars, zvars>>

NotHfunc == <<tvars, cvars, lvars, hvars, rvars, zvars>>

NotRW == <<tvars, cvars, lvars, hvars, fvars, zvars>>

NotRendezvous == <<tvars, cvars, lvars, hvars, fvars, rvars>>

TWorkers == 1..tw

Slots == 0..(tslots - 1)

Min(a, b) == IF a < b THEN a ELSE b

(***************************************************************************)
(* ns_mutex_init, and main up to the creation of the workers.              *)
(***************************************************************************)
\* A variant of ns_mutex_init: Sem_init(&m->queue[i], 1) for every slot.
ns_mutex_init_presignaled ==
  /\ room = 1
  /\ mutex = 1
  /\ queue = [s \in Slots |-> 1]
  /\ ticket = 0
  /\ turn = 0

ns_mutex_init ==
  /\ room = 1
  /\ mutex = 1
  /\ queue = [s \in Slots |-> IF s = 0 THEN 1 ELSE 0]
  /\ ticket = 0
  /\ turn = 0

\* main up to the creation of nw workers, in a build whose MAX_THREADS is n
TicketStart(nw, ni, b, n) ==
  /\ tw = nw
  /\ tn = ni
  /\ tb = b
  /\ tslots = n
  /\ ns_mutex_init
  /\ counter = 0
  /\ tpc = [w \in 1..nw |-> "loop"]
  /\ my_ticket = [w \in 1..nw |-> 0]
  /\ ti = [w \in 1..nw |-> 0]
  /\ ttmp = [w \in 1..nw |-> 0]
  /\ tmain = "run"
  /\ grants = <<>>
  /\ waitq = <<>>
  /\ bypass = [w \in 1..nw |-> 0]

\* the build of the source: #define MAX_THREADS 10
TicketMain(nw, ni, b) == TicketStart(nw, ni, b, MAX_THREADS)

(***************************************************************************)
(* worker: the loop test and the call of ns_mutex_acquire.                 *)
(***************************************************************************)
WorkerCall(w) ==
  /\ tpc[w] = "loop"
  /\ ti[w] < tn
  /\ tpc' = [tpc EXCEPT ![w] = "a_room"]
  /\ waitq' = (IF tb THEN Append(waitq, w) ELSE waitq)
  /\ bypass' = [bypass EXCEPT ![w] = 0]
  /\ UNCHANGED <<NotTicket, tcfg, room, mutex, queue, ticket, turn, counter, my_ticket,
                 ti, ttmp, tmain, grants>>

WorkerReturn(w) ==
  /\ tpc[w] = "loop"
  /\ ti[w] >= tn
  /\ tpc' = [tpc EXCEPT ![w] = "done"]
  /\ UNCHANGED <<NotTicket, tcfg, room, mutex, queue, ticket, turn, counter, my_ticket,
                 ti, ttmp, tmain, grants, waitq, bypass>>

(***************************************************************************)
(* ns_mutex_acquire, one step per statement.                               *)
(***************************************************************************)
AcquireRoom(w) ==
  /\ tpc[w] = "a_room"
  /\ room > 0
  /\ room' = room - 1
  /\ tpc' = [tpc EXCEPT ![w] = "a_mutex"]
  /\ UNCHANGED <<NotTicket, tcfg, mutex, queue, ticket, turn, counter, my_ticket, ti,
                 ttmp, tmain, grants, waitq, bypass>>

AcquireMutex(w) ==
  /\ tpc[w] = "a_mutex"
  /\ mutex > 0
  /\ mutex' = mutex - 1
  /\ tpc' = [tpc EXCEPT ![w] = "a_ticket"]
  /\ UNCHANGED <<NotTicket, tcfg, room, queue, ticket, turn, counter, my_ticket, ti,
                 ttmp, tmain, grants, waitq, bypass>>

AcquireTicket(w) ==
  /\ tpc[w] = "a_ticket"
  /\ my_ticket' = [my_ticket EXCEPT ![w] = ticket]
  /\ ticket' = ticket + 1
  /\ tpc' = [tpc EXCEPT ![w] = "a_unmutex"]
  /\ UNCHANGED <<NotTicket, tcfg, room, mutex, queue, turn, counter, ti, ttmp, tmain,
                 grants, waitq, bypass>>

\* A variant of the step below: Sem_post(&m->room) moved up from line 36.
AcquireUnmutexLeavesRoom(w) ==
  /\ tpc[w] = "a_unmutex"
  /\ mutex' = mutex + 1
  /\ room' = room + 1
  /\ tpc' = [tpc EXCEPT ![w] = "a_queue"]
  /\ UNCHANGED <<NotTicket, tcfg, queue, ticket, turn, counter, my_ticket, ti,
                 ttmp, tmain, grants, waitq, bypass>>

AcquireUnmutex(w) ==
  /\ tpc[w] = "a_unmutex"
  /\ mutex' = mutex + 1
  /\ tpc' = [tpc EXCEPT ![w] = "a_queue"]
  /\ UNCHANGED <<NotTicket, tcfg, room, queue, ticket, turn, counter, my_ticket, ti,
                 ttmp, tmain, grants, waitq, bypass>>

\* A variant of the step below: line 35 without its Sem_wait.
AcquireQueueNoWait(w) ==
  /\ tpc[w] = "a_queue"
  /\ tpc' = [tpc EXCEPT ![w] = "a_leave"]
  /\ grants' = Append(grants, my_ticket[w])
  /\ waitq' = SelectSeq(waitq, LAMBDA x : x # w)
  /\ UNCHANGED <<NotTicket, tcfg, room, mutex, queue, ticket, turn, counter,
                 my_ticket, ti, ttmp, tmain, bypass>>

AcquireQueue(w) ==
  /\ tpc[w] = "a_queue"
  /\ queue[my_ticket[w] % tslots] > 0
  /\ queue' = [queue EXCEPT ![my_ticket[w] % tslots] = @ - 1]
  /\ tpc' = [tpc EXCEPT ![w] = "a_leave"]
  /\ grants' = Append(grants, my_ticket[w])
  /\ waitq' = SelectSeq(waitq, LAMBDA x : x # w)
  /\ bypass' = [v \in TWorkers |->
                  IF tb /\ v # w /\ (\E k \in DOMAIN waitq : waitq[k] = v)
                  THEN Min(bypass[v] + 1, MAX_THREADS)
                  ELSE 0]
  /\ UNCHANGED <<NotTicket, tcfg, room, mutex, ticket, turn, counter, my_ticket, ti,
                 ttmp, tmain>>

AcquireLeave(w) ==
  /\ tpc[w] = "a_leave"
  /\ room' = room + 1
  /\ tpc' = [tpc EXCEPT ![w] = "cs_read"]
  /\ UNCHANGED <<NotTicket, tcfg, mutex, queue, ticket, turn, counter, my_ticket, ti,
                 ttmp, tmain, grants, waitq, bypass>>

(***************************************************************************)
(* worker: counter++ between acquire and release, a load and a store.      *)
(***************************************************************************)
CounterLoad(w) ==
  /\ tpc[w] = "cs_read"
  /\ ttmp' = [ttmp EXCEPT ![w] = counter]
  /\ tpc' = [tpc EXCEPT ![w] = "cs_write"]
  /\ UNCHANGED <<NotTicket, tcfg, room, mutex, queue, ticket, turn, counter, my_ticket,
                 ti, tmain, grants, waitq, bypass>>

CounterStore(w) ==
  /\ tpc[w] = "cs_write"
  /\ counter' = ttmp[w] + 1
  /\ ttmp' = [ttmp EXCEPT ![w] = 0]
  /\ tpc' = [tpc EXCEPT ![w] = "r_mutex"]
  /\ UNCHANGED <<NotTicket, tcfg, room, mutex, queue, ticket, turn, my_ticket, ti,
                 tmain, grants, waitq, bypass>>

(***************************************************************************)
(* ns_mutex_release, one step per statement; the last one closes the       *)
(* iteration of worker's loop.                                             *)
(***************************************************************************)
ReleaseMutex(w) ==
  /\ tpc[w] = "r_mutex"
  /\ mutex > 0
  /\ mutex' = mutex - 1
  /\ tpc' = [tpc EXCEPT ![w] = "r_turn"]
  /\ UNCHANGED <<NotTicket, tcfg, room, queue, ticket, turn, counter, my_ticket, ti,
                 ttmp, tmain, grants, waitq, bypass>>

\* A variant of the step below: turn goes up by two.
ReleaseTurnTwice(w) ==
  /\ tpc[w] = "r_turn"
  /\ turn' = turn + 2
  /\ tpc' = [tpc EXCEPT ![w] = "r_post"]
  /\ UNCHANGED <<NotTicket, tcfg, room, mutex, queue, ticket, counter, my_ticket, ti,
                 ttmp, tmain, grants, waitq, bypass>>

ReleaseTurn(w) ==
  /\ tpc[w] = "r_turn"
  /\ turn' = turn + 1
  /\ tpc' = [tpc EXCEPT ![w] = "r_post"]
  /\ UNCHANGED <<NotTicket, tcfg, room, mutex, queue, ticket, counter, my_ticket, ti,
                 ttmp, tmain, grants, waitq, bypass>>

\* A variant of the step below: it also signals the slot after turn's.
ReleasePostBoth(w) ==
  /\ tpc[w] = "r_post"
  /\ queue' = [s \in Slots |->
                 IF s = turn % tslots \/ s = (turn + 1) % tslots
                 THEN queue[s] + 1 ELSE queue[s]]
  /\ tpc' = [tpc EXCEPT ![w] = "r_unmutex"]
  /\ UNCHANGED <<NotTicket, tcfg, room, mutex, ticket, turn, counter, my_ticket, ti,
                 ttmp, tmain, grants, waitq, bypass>>

\* A variant of the step below: it signals the slot turn had before line 41.
ReleasePostStale(w) ==
  /\ tpc[w] = "r_post"
  /\ queue' = [queue EXCEPT ![(turn - 1) % tslots] = @ + 1]
  /\ tpc' = [tpc EXCEPT ![w] = "r_unmutex"]
  /\ UNCHANGED <<NotTicket, tcfg, room, mutex, ticket, turn, counter, my_ticket, ti,
                 ttmp, tmain, grants, waitq, bypass>>

ReleasePost(w) ==
  /\ tpc[w] = "r_post"
  /\ queue' = [queue EXCEPT ![turn % tslots] = @ + 1]
  /\ tpc' = [tpc EXCEPT ![w] = "r_unmutex"]
  /\ UNCHANGED <<NotTicket, tcfg, room, mutex, ticket, turn, counter, my_ticket, ti,
                 ttmp, tmain, grants, waitq, bypass>>

ReleaseUnmutex(w) ==
  /\ tpc[w] = "r_unmutex"
  /\ mutex' = mutex + 1
  /\ ti' = [ti EXCEPT ![w] = @ + 1]
  /\ my_ticket' = [my_ticket EXCEPT ![w] = 0]
  /\ tpc' = [tpc EXCEPT ![w] = "loop"]
  /\ UNCHANGED <<NotTicket, tcfg, room, queue, ticket, turn, counter, ttmp, tmain,
                 grants, waitq, bypass>>

(***************************************************************************)
(* main: Pthread_join of every worker.                                     *)
(***************************************************************************)
TicketJoin ==
  /\ tmain = "run"
  /\ tw > 0
  /\ \A w \in TWorkers : tpc[w] = "done"
  /\ tmain' = "end"
  /\ UNCHANGED <<NotTicket, tcfg, room, mutex, queue, ticket, turn, counter, tpc,
                 my_ticket, ti, ttmp, grants, waitq, bypass>>

TicketNext ==
  \/ \E w \in TWorkers : WorkerCall(w)
  \/ \E w \in TWorkers : WorkerReturn(w)
  \/ \E w \in TWorkers : AcquireRoom(w)
  \/ \E w \in TWorkers : AcquireMutex(w)
  \/ \E w \in TWorkers : AcquireTicket(w)
  \/ \E w \in TWorkers : AcquireUnmutex(w)
  \/ \E w \in TWorkers : AcquireQueue(w)
  \/ \E w \in TWorkers : AcquireLeave(w)
  \/ \E w \in TWorkers : CounterLoad(w)
  \/ \E w \in TWorkers : CounterStore(w)
  \/ \E w \in TWorkers : ReleaseMutex(w)
  \/ \E w \in TWorkers : ReleaseTurn(w)
  \/ \E w \in TWorkers : ReleasePost(w)
  \/ \E w \in TWorkers : ReleaseUnmutex(w)
  \/ TicketJoin


(***************************************************************************)
(* The approximate counter.  Thread t of run_q3 (t = 1..cnt) runs          *)
(* q3_worker with tid = t - 1.                                             *)
(***************************************************************************)
CThreads == 1..cnt

Shards == 0..(cncpu - 1)

\* a->tid, the shard id q3_worker passes to approx_update
Tid(t) == ctid[t]

\* the % of C, whose result has the sign of a
CRem(a, b) ==
  IF a >= 0 THEN a % b ELSE (IF a % b = 0 THEN 0 ELSE (a % b) - b)

RECURSIVE SumOver(_, _)
SumOver(f, S) ==
  IF S = {} THEN 0
  ELSE LET x == CHOOSE y \in S : TRUE IN f[x] + SumOver(f, S \ {x})

\* approx_init(c, th, ncpu)
approx_init(th, ncpu) ==
  /\ cth = th
  /\ cglobal = 0
  /\ cglock = 0
  /\ cncpu = (IF ncpu > 0 THEN ncpu ELSE 4)
  /\ clocal = [s \in 0..((IF ncpu > 0 THEN ncpu ELSE 4) - 1) |-> 0]
  /\ cllock = [s \in 0..((IF ncpu > 0 THEN ncpu ELSE 4) - 1) |-> 0]

\* nt workers about to run q3_worker, worker t with a->tid = tids[t]
CounterStart(nt, it, th, ncpu, tids) ==
  /\ cnt = nt
  /\ cit = it
  /\ ctid = tids
  /\ approx_init(th, ncpu)
  /\ cpc = [t \in 1..nt |-> "loop"]
  /\ ci = [t \in 1..nt |-> 0]
  /\ ccpu = [t \in 1..nt |-> 0]
  /\ cmain = "run"
  /\ cv = 0
  /\ ctotal = 0
  /\ capplied = 0

\* run_q3 up to the creation of the workers, for a counter of ncpu shards:
\* a[i]=(q3_arg_t){.ctr=&c,.iters=iters,.tid=i};
CounterMain(nt, it, th, ncpu) ==
  CounterStart(nt, it, th, ncpu, [t \in 1..nt |-> t - 1])

\* q3_worker: for(long i=0;i<a->iters;i++) approx_update(a->ctr,a->tid);
Q3Call(t) ==
  /\ cpc[t] = "loop"
  /\ ci[t] < cit
  /\ cpc' = [cpc EXCEPT ![t] = "u_lock"]
  /\ UNCHANGED <<NotCounter, ccfg, cglobal, cglock, clocal, cllock, ci, ccpu,
                 cmain, cv, ctotal, capplied>>

Q3Return(t) ==
  /\ cpc[t] = "loop"
  /\ ci[t] >= cit
  /\ cpc' = [cpc EXCEPT ![t] = "done"]
  /\ UNCHANGED <<NotCounter, ccfg, cglobal, cglock, clocal, cllock, ci, ccpu,
                 cmain, cv, ctotal, capplied>>

\* int cpu=tid%c->ncpu; pthread_mutex_lock(&c->llock[cpu]); when cpu is an
\* index of llock[0..ncpu-1]
UpdateLock(t) ==
  /\ cpc[t] = "u_lock"
  /\ CRem(Tid(t), cncpu) \in Shards
  /\ cllock[CRem(Tid(t), cncpu)] = 0
  /\ ccpu' = [ccpu EXCEPT ![t] = CRem(Tid(t), cncpu)]
  /\ cllock' = [cllock EXCEPT ![CRem(Tid(t), cncpu)] = t]
  /\ cpc' = [cpc EXCEPT ![t] = "u_inc"]
  /\ UNCHANGED <<NotCounter, ccfg, cglobal, cglock, clocal, ci, cmain, cv,
                 ctotal, capplied>>

\* the same statement when cpu is negative: &c->llock[cpu] and
\* c->local[cpu] lie outside the arrays, and what the call does from here
\* on is undefined
UpdateLockOutOfRange(t) ==
  /\ cpc[t] = "u_lock"
  /\ CRem(Tid(t), cncpu) \notin Shards
  /\ ccpu' = [ccpu EXCEPT ![t] = CRem(Tid(t), cncpu)]
  /\ cpc' = [cpc EXCEPT ![t] = "undefined"]
  /\ UNCHANGED <<NotCounter, ccfg, cglobal, cglock, clocal, cllock, ci, cmain,
                 cv, ctotal, capplied>>

\* an approx_update that went out of range comes back having left any
\* value in c->global; it may also never come back, which is this step
\* never being taken
UndefinedOutcome(t) ==
  /\ cpc[t] = "undefined"
  /\ \E g \in 0..(cnt * cit) : cglobal' = g
  /\ ccpu' = [ccpu EXCEPT ![t] = 0]
  /\ ci' = [ci EXCEPT ![t] = @ + 1]
  /\ cpc' = [cpc EXCEPT ![t] = "loop"]
  /\ UNCHANGED <<NotCounter, ccfg, cglock, clocal, cllock, cmain, cv, ctotal,
                 capplied>>

\* A variant of the step below: c->local[cpu]+=2.
UpdateIncTwice(t) ==
  /\ cpc[t] = "u_inc"
  /\ clocal' = [clocal EXCEPT ![ccpu[t]] = @ + 2]
  /\ capplied' = capplied + 1
  /\ cpc' = [cpc EXCEPT ![t] = "u_test"]
  /\ UNCHANGED <<NotCounter, ccfg, cglobal, cglock, cllock, ci, ccpu, cmain,
                 cv, ctotal>>

\* c->local[cpu]++;
UpdateInc(t) ==
  /\ cpc[t] = "u_inc"
  /\ clocal' = [clocal EXCEPT ![ccpu[t]] = @ + 1]
  /\ capplied' = capplied + 1
  /\ cpc' = [cpc EXCEPT ![t] = "u_test"]
  /\ UNCHANGED <<NotCounter, ccfg, cglobal, cglock, cllock, ci, ccpu, cmain,
                 cv, ctotal>>

\* A variant of the test below: > in place of >=.
UpdateTestStrict(t) ==
  /\ cpc[t] = "u_test"
  /\ cpc' = [cpc EXCEPT ![t] =
               IF clocal[ccpu[t]] > cth THEN "u_glock" ELSE "u_unlock"]
  /\ UNCHANGED <<NotCounter, ccfg, cglobal, cglock, clocal, cllock, ci, ccpu,
                 cmain, cv, ctotal, capplied>>

\* if(c->local[cpu]>=c->threshold)
UpdateTest(t) ==
  /\ cpc[t] = "u_test"
  /\ cpc' = [cpc EXCEPT ![t] =
               IF clocal[ccpu[t]] >= cth THEN "u_glock" ELSE "u_unlock"]
  /\ UNCHANGED <<NotCounter, ccfg, cglobal, cglock, clocal, cllock, ci, ccpu,
                 cmain, cv, ctotal, capplied>>

\* A variant of the step below: the shard lock is given up for the global
\* lock.
UpdateGlockSwap(t) ==
  /\ cpc[t] = "u_glock"
  /\ cglock = 0
  /\ cglock' = t
  /\ cllock' = [cllock EXCEPT ![ccpu[t]] = 0]
  /\ cpc' = [cpc EXCEPT ![t] = "u_add"]
  /\ UNCHANGED <<NotCounter, ccfg, cglobal, clocal, ci, ccpu, cmain,
                 cv, ctotal, capplied>>

\* pthread_mutex_lock(&c->glock);
UpdateGlock(t) ==
  /\ cpc[t] = "u_glock"
  /\ cglock = 0
  /\ cglock' = t
  /\ cpc' = [cpc EXCEPT ![t] = "u_add"]
  /\ UNCHANGED <<NotCounter, ccfg, cglobal, clocal, cllock, ci, ccpu, cmain,
                 cv, ctotal, capplied>>

\* A variant of the step below: c->global+=c->threshold.
UpdateAddThreshold(t) ==
  /\ cpc[t] = "u_add"
  /\ cglobal' = cglobal + cth
  /\ cpc' = [cpc EXCEPT ![t] = "u_gunlock"]
  /\ UNCHANGED <<NotCounter, ccfg, cglock, clocal, cllock, ci, ccpu, cmain,
                 cv, ctotal, capplied>>

\* c->global+=c->local[cpu];
UpdateAdd(t) ==
  /\ cpc[t] = "u_add"
  /\ cglobal' = cglobal + clocal[ccpu[t]]
  /\ cpc' = [cpc EXCEPT ![t] = "u_gunlock"]
  /\ UNCHANGED <<NotCounter, ccfg, cglock, clocal, cllock, ci, ccpu, cmain,
                 cv, ctotal, capplied>>

\* pthread_mutex_unlock(&c->glock);
\* A variant of the step below: the flush goes on without the unlock.
UpdateGunlockSkipped(t) ==
  /\ cpc[t] = "u_gunlock"
  /\ cpc' = [cpc EXCEPT ![t] = "u_reset"]
  /\ UNCHANGED <<NotCounter, ccfg, cglobal, cglock, clocal, cllock, ci, ccpu,
                 cmain, cv, ctotal, capplied>>

UpdateGunlock(t) ==
  /\ cpc[t] = "u_gunlock"
  /\ cglock' = 0
  /\ cpc' = [cpc EXCEPT ![t] = "u_reset"]
  /\ UNCHANGED <<NotCounter, ccfg, cglobal, clocal, cllock, ci, ccpu, cmain,
                 cv, ctotal, capplied>>

\* A variant of the step below: the reset left out.
UpdateResetSkipped(t) ==
  /\ cpc[t] = "u_reset"
  /\ cpc' = [cpc EXCEPT ![t] = "u_unlock"]
  /\ UNCHANGED <<NotCounter, ccfg, cglobal, cglock, clocal, cllock, ci, ccpu,
                 cmain, cv, ctotal, capplied>>

\* c->local[cpu]=0;
UpdateReset(t) ==
  /\ cpc[t] = "u_reset"
  /\ clocal' = [clocal EXCEPT ![ccpu[t]] = 0]
  /\ cpc' = [cpc EXCEPT ![t] = "u_unlock"]
  /\ UNCHANGED <<NotCounter, ccfg, cglobal, cglock, cllock, ci, ccpu, cmain,
                 cv, ctotal, capplied>>

\* pthread_mutex_unlock(&c->llock[cpu]); and the i++ of q3_worker's loop
UpdateUnlock(t) ==
  /\ cpc[t] = "u_unlock"
  /\ cllock' = [cllock EXCEPT ![ccpu[t]] = 0]
  /\ ccpu' = [ccpu EXCEPT ![t] = 0]
  /\ ci' = [ci EXCEPT ![t] = @ + 1]
  /\ cpc' = [cpc EXCEPT ![t] = "loop"]
  /\ UNCHANGED <<NotCounter, ccfg, cglobal, cglock, clocal, cmain, cv, ctotal,
                 capplied>>

\* run_q3: pthread_join of every worker
CounterJoin ==
  /\ cmain = "run"
  /\ cnt > 0
  /\ \A t \in CThreads : cpc[t] = "done"
  /\ cmain' = "joined"
  /\ UNCHANGED <<NotCounter, ccfg, cglobal, cglock, clocal, cllock, cpc, ci,
                 ccpu, cv, ctotal, capplied>>

\* approx_get, called by run_q3 (thread 0 of the run) for its printf
GetLock ==
  /\ cmain = "joined"
  /\ cglock = 0
  /\ cglock' = -1
  /\ cmain' = "g_read"
  /\ UNCHANGED <<NotCounter, ccfg, cglobal, clocal, cllock, cpc, ci, ccpu, cv,
                 ctotal, capplied>>

GetRead ==
  /\ cmain = "g_read"
  /\ cv' = cglobal
  /\ cmain' = "g_unlock"
  /\ UNCHANGED <<NotCounter, ccfg, cglobal, cglock, clocal, cllock, cpc, ci,
                 ccpu, ctotal, capplied>>

GetUnlock ==
  /\ cmain = "g_unlock"
  /\ cglock' = 0
  /\ ctotal' = cv
  /\ cv' = 0
  /\ cmain' = "end"
  /\ UNCHANGED <<NotCounter, ccfg, cglobal, clocal, cllock, cpc, ci, ccpu,
                 capplied>>

CounterNext ==
  \/ \E t \in CThreads : Q3Call(t)
  \/ \E t \in CThreads : Q3Return(t)
  \/ \E t \in CThreads : UpdateLock(t)
  \/ \E t \in CThreads : UpdateInc(t)
  \/ \E t \in CThreads : UpdateTest(t)
  \/ \E t \in CThreads : UpdateGlock(t)
  \/ \E t \in CThreads : UpdateAdd(t)
  \/ \E t \in CThreads : UpdateGunlock(t)
  \/ \E t \in CThreads : UpdateReset(t)
  \/ \E t \in CThreads : UpdateUnlock(t)
  \/ CounterJoin
  \/ GetLock
  \/ GetRead
  \/ GetUnlock

\* approx_update called with any shard id
ShardNext ==
  \/ CounterNext
  \/ \E t \in CThreads : UpdateLockOutOfRange(t)
  \/ \E t \in CThreads : UndefinedOutcome(t)

(***************************************************************************)
(* The linked list.  The threads 1..lnt make lno calls between them, each  *)
(* a list_insert or a list_lookup of some key; run_q4 is the case of one   *)
(* thread inserting and then several looking up.  A node is a number       *)
(* 1, 2, ... in the order malloc returned it; what malloc returns holds    *)
(* UNDEF until line 93 writes it.                                          *)
(***************************************************************************)
NULL == 0

UNDEF == -1

LThreads == 1..lnt

Nodes == 1..lno

\* list_insert and list_lookup only compare keys for equality: the key asked
\* for and one other key
Keys == {1, 2}

InsertInProgress(v) == lop[v] = "insert" /\ lpc[v] # "idle"

LookupInProgress(v) == lop[v] = "lookup" /\ lpc[v] # "idle"

\* list_init(L, hoh), and the threads before their first operation
ListMain(nt, no, hoh) ==
  /\ lnt = nt
  /\ lno = no
  /\ lhoh = hoh
  /\ lhead = NULL
  /\ llock = 0
  /\ nalloc = 0
  /\ nkey = [n \in 1..no |-> UNDEF]
  /\ nnext = [n \in 1..no |-> UNDEF]
  /\ nlock = [n \in 1..no |-> 0]
  /\ lpc = [w \in 1..nt |-> "idle"]
  /\ lop = [w \in 1..nt |-> "none"]
  /\ lkey = [w \in 1..nt |-> 0]
  /\ ln = [w \in 1..nt |-> NULL]
  /\ lc = [w \in 1..nt |-> NULL]
  /\ lrv = [w \in 1..nt |-> 0]
  /\ lops = 0
  /\ lmain = "run"
  /\ linserted = [k \in Keys |-> 0]
  /\ lsnap = [w \in 1..nt |-> {}]
  /\ ldirty = [w \in 1..nt |-> FALSE]
  /\ loverlap = FALSE

\* a thread calls list_insert(L, k)
CallInsert(w, k) ==
  /\ lpc[w] = "idle"
  /\ lops < lno
  /\ lops' = lops + 1
  /\ lop' = [lop EXCEPT ![w] = "insert"]
  /\ lkey' = [lkey EXCEPT ![w] = k]
  /\ lrv' = [lrv EXCEPT ![w] = 0]
  /\ lpc' = [lpc EXCEPT ![w] = "i_malloc"]
  /\ lsnap' = [lsnap EXCEPT ![w] = {}]
  /\ ldirty' = [v \in LThreads |->
                  IF v = w THEN FALSE ELSE ldirty[v] \/ LookupInProgress(v)]
  /\ loverlap' = (loverlap \/ \E v \in LThreads : InsertInProgress(v))
  /\ UNCHANGED <<NotList, lcfg, lmain, lhead, llock, lnodes, ln, lc, linserted>>

\* a thread calls list_lookup(L, k); line 106 reads L->hoh
CallLookup(w, k) ==
  /\ lpc[w] = "idle"
  /\ lops < lno
  /\ lops' = lops + 1
  /\ lop' = [lop EXCEPT ![w] = "lookup"]
  /\ lkey' = [lkey EXCEPT ![w] = k]
  /\ lrv' = [lrv EXCEPT ![w] = 0]
  /\ lpc' = [lpc EXCEPT ![w] = IF lhoh = 0 THEN "s_lock" ELSE "k_lock"]
  /\ lsnap' = [lsnap EXCEPT ![w] = {j \in Keys : linserted[j] > 0}]
  /\ ldirty' = [ldirty EXCEPT ![w] = \E v \in LThreads : InsertInProgress(v)]
  /\ UNCHANGED <<NotList, lcfg, lmain, lhead, llock, lnodes, ln, lc, linserted,
                 loverlap>>

(***************************************************************************)
(* list_insert                                                             *)
(***************************************************************************)
\* node_t *n=(node_t*)malloc(sizeof(node_t)); malloc returns a node
InsertMalloc(w) ==
  /\ lpc[w] = "i_malloc"
  /\ nalloc' = nalloc + 1
  /\ ln' = [ln EXCEPT ![w] = nalloc + 1]
  /\ lpc' = [lpc EXCEPT ![w] = "i_init"]
  /\ UNCHANGED <<NotList, lcfg, lmain, lhead, llock, nkey, nnext, nlock, lop, lkey,
                 lc, lrv, lops, lhist>>

\* A variant of the step below: return 0 in place of return -1.
InsertMallocFailZero(w) ==
  /\ lpc[w] = "i_malloc"
  /\ lrv' = [lrv EXCEPT ![w] = 0]
  /\ lpc' = [lpc EXCEPT ![w] = "idle"]
  /\ UNCHANGED <<NotList, lcfg, lmain, lops, lhead, llock, lnodes, lop, lkey, ln, lc, lhist>>

\* malloc returns NULL: if(!n) return -1;
InsertMallocFail(w) ==
  /\ lpc[w] = "i_malloc"
  /\ lrv' = [lrv EXCEPT ![w] = -1]
  /\ lpc' = [lpc EXCEPT ![w] = "idle"]
  /\ UNCHANGED <<NotList, lcfg, lmain, lops, lhead, llock, lnodes, lop, lkey, ln, lc, lhist>>

\* n->key=key; n->next=NULL; pthread_mutex_init(&n->lock,NULL);
InsertInit(w) ==
  /\ lpc[w] = "i_init"
  /\ nkey' = [nkey EXCEPT ![ln[w]] = lkey[w]]
  /\ nnext' = [nnext EXCEPT ![ln[w]] = NULL]
  /\ nlock' = [nlock EXCEPT ![ln[w]] = 0]
  /\ lpc' = [lpc EXCEPT ![w] = "i_lock"]
  /\ UNCHANGED <<NotList, lcfg, lmain, lhead, llock, nalloc, lop, lkey, ln, lc, lrv,
                 lops, lhist>>

\* A variant of the step below: the list lock is not taken.
InsertLockSkipped(w) ==
  /\ lpc[w] = "i_lock"
  /\ lpc' = [lpc EXCEPT ![w] = IF lhoh = 0 THEN "i_next" ELSE "h_lockhead"]
  /\ UNCHANGED <<NotList, lcfg, lmain, lhead, llock, lnodes, lop, lkey, ln, lc, lrv,
                 lops, lhist>>

\* pthread_mutex_lock(&L->lock); on either branch of if(!L->hoh)
InsertLock(w) ==
  /\ lpc[w] = "i_lock"
  /\ llock = 0
  /\ llock' = w
  /\ lpc' = [lpc EXCEPT ![w] = IF lhoh = 0 THEN "i_next" ELSE "h_lockhead"]
  /\ UNCHANGED <<NotList, lcfg, lmain, lhead, lnodes, lop, lkey, ln, lc, lrv, lops,
                 lhist>>

\* A variant of the step below: the head node's lock is not taken.
InsertLockHeadSkipped(w) ==
  /\ lpc[w] = "h_lockhead"
  /\ lpc' = [lpc EXCEPT ![w] = "i_next"]
  /\ UNCHANGED <<NotList, lcfg, lmain, lhead, llock, lnodes, lop, lkey, ln, lc,
                 lrv, lops, lhist>>

\* if(L->head) pthread_mutex_lock(&L->head->lock);
InsertLockHead(w) ==
  /\ lpc[w] = "h_lockhead"
  /\ IF lhead # NULL
     THEN /\ nlock[lhead] = 0
          /\ nlock' = [nlock EXCEPT ![lhead] = w]
     ELSE nlock' = nlock
  /\ lpc' = [lpc EXCEPT ![w] = "i_next"]
  /\ UNCHANGED <<NotList, lcfg, lmain, lhead, llock, nalloc, nkey, nnext, lop, lkey,
                 ln, lc, lrv, lops, lhist>>

\* A variant of the step below: n->next is left as line 93 set it.
InsertSetNextSkipped(w) ==
  /\ lpc[w] = "i_next"
  /\ lpc' = [lpc EXCEPT ![w] = "i_head"]
  /\ UNCHANGED <<NotList, lcfg, lmain, lhead, llock, lnodes, lop, lkey, ln, lc, lrv,
                 lops, lhist>>

\* n->next=L->head;
InsertSetNext(w) ==
  /\ lpc[w] = "i_next"
  /\ nnext' = [nnext EXCEPT ![ln[w]] = lhead]
  /\ lpc' = [lpc EXCEPT ![w] = "i_head"]
  /\ UNCHANGED <<NotList, lcfg, lmain, lhead, llock, nalloc, nkey, nlock, lop, lkey,
                 ln, lc, lrv, lops, lhist>>

\* L->head=n;
InsertSetHead(w) ==
  /\ lpc[w] = "i_head"
  /\ lhead' = ln[w]
  /\ lpc' = [lpc EXCEPT ![w] = IF lhoh = 0 THEN "i_unlock" ELSE "h_unlocknext"]
  /\ UNCHANGED <<NotList, lcfg, lmain, llock, lnodes, lop, lkey, ln, lc, lrv, lops,
                 lhist>>

\* if(n->next) pthread_mutex_unlock(&n->next->lock);
InsertUnlockNext(w) ==
  /\ lpc[w] = "h_unlocknext"
  /\ nlock' = IF nnext[ln[w]] # NULL
              THEN [nlock EXCEPT ![nnext[ln[w]]] = 0]
              ELSE nlock
  /\ lpc' = [lpc EXCEPT ![w] = "i_unlock"]
  /\ UNCHANGED <<NotList, lcfg, lmain, lhead, llock, nalloc, nkey, nnext, lop, lkey,
                 ln, lc, lrv, lops, lhist>>

\* pthread_mutex_unlock(&L->lock); return 0;
InsertUnlock(w) ==
  /\ lpc[w] = "i_unlock"
  /\ llock' = 0
  /\ lrv' = [lrv EXCEPT ![w] = 0]
  /\ ln' = [ln EXCEPT ![w] = NULL]
  /\ linserted' = [linserted EXCEPT ![lkey[w]] = @ + 1]
  /\ lpc' = [lpc EXCEPT ![w] = "idle"]
  /\ UNCHANGED <<NotList, lcfg, lmain, lops, lhead, lnodes, lop, lkey, lc, lsnap, ldirty,
                 loverlap>>

(***************************************************************************)
(* list_lookup, single-lock branch                                         *)
(***************************************************************************)
\* int rv=-1; pthread_mutex_lock(&L->lock);
ScanLock(w) ==
  /\ lpc[w] = "s_lock"
  /\ llock = 0
  /\ llock' = w
  /\ lrv' = [lrv EXCEPT ![w] = -1]
  /\ lpc' = [lpc EXCEPT ![w] = "s_head"]
  /\ UNCHANGED <<NotList, lcfg, lmain, lhead, lnodes, lop, lkey, ln, lc, lops, lhist>>

\* A variant of the step below: the scan starts at the second node.
ScanHeadSkipsFirst(w) ==
  /\ lpc[w] = "s_head"
  /\ lc' = [lc EXCEPT ![w] = IF lhead = NULL THEN NULL ELSE nnext[lhead]]
  /\ lpc' = [lpc EXCEPT ![w] = "s_test"]
  /\ UNCHANGED <<NotList, lcfg, lmain, lhead, llock, lnodes, lop, lkey, ln, lrv, lops,
                 lhist>>

\* for(node_t*c=L->head; ...
ScanHead(w) ==
  /\ lpc[w] = "s_head"
  /\ lc' = [lc EXCEPT ![w] = lhead]
  /\ lpc' = [lpc EXCEPT ![w] = "s_test"]
  /\ UNCHANGED <<NotList, lcfg, lmain, lhead, llock, lnodes, lop, lkey, ln, lrv, lops,
                 lhist>>

\* ... ;c; ...) the loop ends
ScanEnd(w) ==
  /\ lpc[w] = "s_test"
  /\ lc[w] = NULL
  /\ lpc' = [lpc EXCEPT ![w] = "s_unlock"]
  /\ UNCHANGED <<NotList, lcfg, lmain, lhead, llock, lnodes, lop, lkey, ln, lc, lrv,
                 lops, lhist>>

\* if(c->key==key){rv=0;break;}
ScanFound(w) ==
  /\ lpc[w] = "s_test"
  /\ lc[w] # NULL
  /\ nkey[lc[w]] = lkey[w]
  /\ lrv' = [lrv EXCEPT ![w] = 0]
  /\ lpc' = [lpc EXCEPT ![w] = "s_unlock"]
  /\ UNCHANGED <<NotList, lcfg, lmain, lhead, llock, lnodes, lop, lkey, ln, lc, lops,
                 lhist>>

\* ... ;c=c->next)
ScanNext(w) ==
  /\ lpc[w] = "s_test"
  /\ lc[w] # NULL
  /\ nkey[lc[w]] # lkey[w]
  /\ lc' = [lc EXCEPT ![w] = nnext[lc[w]]]
  /\ UNCHANGED <<NotList, lcfg, lmain, lhead, llock, lnodes, lpc, lop, lkey, ln, lrv,
                 lops, lhist>>

\* pthread_mutex_unlock(&L->lock); return rv;
ScanUnlock(w) ==
  /\ lpc[w] = "s_unlock"
  /\ llock' = 0
  /\ lc' = [lc EXCEPT ![w] = NULL]
  /\ lpc' = [lpc EXCEPT ![w] = "idle"]
  /\ UNCHANGED <<NotList, lcfg, lmain, lops, lhead, lnodes, lop, lkey, ln, lrv, lhist>>

(***************************************************************************)
(* list_lookup, hand-over-hand branch                                      *)
(***************************************************************************)
\* pthread_mutex_lock(&L->lock);
HohLock(w) ==
  /\ lpc[w] = "k_lock"
  /\ llock = 0
  /\ llock' = w
  /\ lpc' = [lpc EXCEPT ![w] = "k_head"]
  /\ UNCHANGED <<NotList, lcfg, lmain, lhead, lnodes, lop, lkey, ln, lc, lrv, lops,
                 lhist>>

\* node_t *c=L->head;
HohHead(w) ==
  /\ lpc[w] = "k_head"
  /\ lc' = [lc EXCEPT ![w] = lhead]
  /\ lpc' = [lpc EXCEPT ![w] = "k_lockc"]
  /\ UNCHANGED <<NotList, lcfg, lmain, lhead, llock, lnodes, lop, lkey, ln, lrv, lops,
                 lhist>>

\* if(c) pthread_mutex_lock(&c->lock);
HohLockFirst(w) ==
  /\ lpc[w] = "k_lockc"
  /\ IF lc[w] # NULL
     THEN /\ nlock[lc[w]] = 0
          /\ nlock' = [nlock EXCEPT ![lc[w]] = w]
     ELSE nlock' = nlock
  /\ lpc' = [lpc EXCEPT ![w] = "k_unlockL"]
  /\ UNCHANGED <<NotList, lcfg, lmain, lhead, llock, nalloc, nkey, nnext, lop, lkey,
                 ln, lc, lrv, lops, lhist>>

\* pthread_mutex_unlock(&L->lock);
\* A variant of the step below: line 111 without its unlock of L->lock.
HohUnlockListSkipped(w) ==
  /\ lpc[w] = "k_unlockL"
  /\ lpc' = [lpc EXCEPT ![w] = "k_test"]
  /\ UNCHANGED <<NotList, lcfg, lmain, lhead, llock, lnodes, lop, lkey, ln, lc, lrv,
                 lops, lhist>>

HohUnlockList(w) ==
  /\ lpc[w] = "k_unlockL"
  /\ llock' = 0
  /\ lpc' = [lpc EXCEPT ![w] = "k_test"]
  /\ UNCHANGED <<NotList, lcfg, lmain, lhead, lnodes, lop, lkey, ln, lc, lrv, lops,
                 lhist>>

\* while(c) fails; return -1;
HohEnd(w) ==
  /\ lpc[w] = "k_test"
  /\ lc[w] = NULL
  /\ lrv' = [lrv EXCEPT ![w] = -1]
  /\ lpc' = [lpc EXCEPT ![w] = "idle"]
  /\ UNCHANGED <<NotList, lcfg, lmain, lops, lhead, llock, lnodes, lop, lkey, ln, lc, lhist>>

\* if(c->key==key) holds
HohTestFound(w) ==
  /\ lpc[w] = "k_test"
  /\ lc[w] # NULL
  /\ nkey[lc[w]] = lkey[w]
  /\ lpc' = [lpc EXCEPT ![w] = "k_found"]
  /\ UNCHANGED <<NotList, lcfg, lmain, lhead, llock, lnodes, lop, lkey, ln, lc, lrv,
                 lops, lhist>>

\* { pthread_mutex_unlock(&c->lock); return 0; }
\* A variant of the step below: return 0 without the unlock of c->lock.
HohFoundUnlockSkipped(w) ==
  /\ lpc[w] = "k_found"
  /\ lrv' = [lrv EXCEPT ![w] = 0]
  /\ lc' = [lc EXCEPT ![w] = NULL]
  /\ lpc' = [lpc EXCEPT ![w] = "idle"]
  /\ UNCHANGED <<NotList, lcfg, lmain, lops, lhead, llock, lnodes, lop, lkey,
                 ln, lhist>>

HohFoundUnlock(w) ==
  /\ lpc[w] = "k_found"
  /\ nlock' = [nlock EXCEPT ![lc[w]] = 0]
  /\ lrv' = [lrv EXCEPT ![w] = 0]
  /\ lc' = [lc EXCEPT ![w] = NULL]
  /\ lpc' = [lpc EXCEPT ![w] = "idle"]
  /\ UNCHANGED <<NotList, lcfg, lmain, lops, lhead, llock, nalloc, nkey, nnext, lop, lkey,
                 ln, lhist>>

\* if(c->key==key) fails
HohTestMiss(w) ==
  /\ lpc[w] = "k_test"
  /\ lc[w] # NULL
  /\ nkey[lc[w]] # lkey[w]
  /\ lpc' = [lpc EXCEPT ![w] = "k_next"]
  /\ UNCHANGED <<NotList, lcfg, lmain, lhead, llock, lnodes, lop, lkey, ln, lc, lrv,
                 lops, lhist>>

\* node_t*n=c->next;
HohNext(w) ==
  /\ lpc[w] = "k_next"
  /\ ln' = [ln EXCEPT ![w] = nnext[lc[w]]]
  /\ lpc' = [lpc EXCEPT ![w] = "k_lockn"]
  /\ UNCHANGED <<NotList, lcfg, lmain, lhead, llock, lnodes, lop, lkey, lc, lrv, lops,
                 lhist>>

\* A variant of the step below: the walk goes on without the lock of n.
HohLockNextSkipped(w) ==
  /\ lpc[w] = "k_lockn"
  /\ lpc' = [lpc EXCEPT ![w] = "k_unlockc"]
  /\ UNCHANGED <<NotList, lcfg, lmain, lhead, llock, lnodes, lop, lkey, ln, lc,
                 lrv, lops, lhist>>

\* if(n) pthread_mutex_lock(&n->lock);
HohLockNext(w) ==
  /\ lpc[w] = "k_lockn"
  /\ IF ln[w] # NULL
     THEN /\ nlock[ln[w]] = 0
          /\ nlock' = [nlock EXCEPT ![ln[w]] = w]
     ELSE nlock' = nlock
  /\ lpc' = [lpc EXCEPT ![w] = "k_unlockc"]
  /\ UNCHANGED <<NotList, lcfg, lmain, lhead, llock, nalloc, nkey, nnext, lop, lkey,
                 ln, lc, lrv, lops, lhist>>

\* pthread_mutex_unlock(&c->lock); c=n;
HohUnlockCur(w) ==
  /\ lpc[w] = "k_unlockc"
  /\ nlock' = [nlock EXCEPT ![lc[w]] = 0]
  /\ lc' = [lc EXCEPT ![w] = ln[w]]
  /\ ln' = [ln EXCEPT ![w] = NULL]
  /\ lpc' = [lpc EXCEPT ![w] = "k_test"]
  /\ UNCHANGED <<NotList, lcfg, lmain, lhead, llock, nalloc, nkey, nnext, lop, lkey,
                 lrv, lops, lhist>>

\* pthread_join of every thread, once the calls of the run are made
ListJoin ==
  /\ lmain = "run"
  /\ lnt > 0
  /\ lops = lno
  /\ \A w \in LThreads : lpc[w] = "idle"
  /\ lmain' = "end"
  /\ UNCHANGED <<NotList, lcfg, lhead, llock, lnodes, lpc, lop, lkey, ln, lc,
                 lrv, lops, lhist>>

ListNext ==
  \/ \E w \in LThreads, k \in Keys : CallInsert(w, k)
  \/ \E w \in LThreads, k \in Keys : CallLookup(w, k)
  \/ \E w \in LThreads : InsertMalloc(w)
  \/ \E w \in LThreads : InsertMallocFail(w)
  \/ \E w \in LThreads : InsertInit(w)
  \/ \E w \in LThreads : InsertLock(w)
  \/ \E w \in LThreads : InsertLockHead(w)
  \/ \E w \in LThreads : InsertSetNext(w)
  \/ \E w \in LThreads : InsertSetHead(w)
  \/ \E w \in LThreads : InsertUnlockNext(w)
  \/ \E w \in LThreads : InsertUnlock(w)
  \/ \E w \in LThreads : ScanLock(w)
  \/ \E w \in LThreads : ScanHead(w)
  \/ \E w \in LThreads : ScanEnd(w)
  \/ \E w \in LThreads : ScanFound(w)
  \/ \E w \in LThreads : ScanNext(w)
  \/ \E w \in LThreads : ScanUnlock(w)
  \/ \E w \in LThreads : HohLock(w)
  \/ \E w \in LThreads : HohHead(w)
  \/ \E w \in LThreads : HohLockFirst(w)
  \/ \E w \in LThreads : HohUnlockList(w)
  \/ \E w \in LThreads : HohEnd(w)
  \/ \E w \in LThreads : HohTestFound(w)
  \/ \E w \in LThreads : HohFoundUnlock(w)
  \/ \E w \in LThreads : HohTestMiss(w)
  \/ \E w \in LThreads : HohNext(w)
  \/ \E w \in LThreads : HohLockNext(w)
  \/ \E w \in LThreads : HohUnlockCur(w)
  \/ ListJoin

(***************************************************************************)
(* The hash table.  Thread w of run_hash (w = 1..hnt) runs q56_worker      *)
(* with start = (w-1)*nops and n = nops.  hash_insert only ever puts a     *)
(* fresh node in front of a bucket's chain and no node is unlinked or      *)
(* rewritten, so a node pointer is written as the sequence of keys met     *)
(* from that node on: NULL is <<>>.                                        *)
(***************************************************************************)
HThreads == 1..hnt

Buckets == 0..(hnb - 1)

HKeys == 0..(hnt * hnops - 1)

\* (k%H->nb+H->nb)%H->nb on a table of nb buckets, where the sum is an int
hfuncOn(nb, k) == CRem(CRem(k, nb) + nb, nb)

\* int hfunc(hash_t*H,int k){ return (k%H->nb+H->nb)%H->nb; }
hfunc(k) == hfuncOn(hnb, k)

\* H->nb=nb>0?nb:101;
hash_nb(nb) == IF nb > 0 THEN nb ELSE 101

\* hash_init(H, nb, per)
hash_init(nb, per) ==
  /\ hnb = hash_nb(nb)
  /\ hper = per
  /\ hhead = [b \in 0..(hash_nb(nb) - 1) |-> <<>>]
  /\ hblock = [b \in 0..(hash_nb(nb) - 1) |-> 0]
  /\ hglock = 0

\* run_hash up to the creation of the workers
HashMain(nt, nops, nb, per) ==
  /\ hnt = nt
  /\ hnops = nops
  /\ hash_init(nb, per)
  /\ hpc = [w \in 1..nt |-> "loop"]
  /\ hi = [w \in 1..nt |-> 0]
  /\ hk = [w \in 1..nt |-> 0]
  /\ hb = [w \in 1..nt |-> 0]
  /\ hn = [w \in 1..nt |-> <<>>]
  /\ hret = [w \in 1..nt |-> "none"]
  /\ hmain = "run"
  /\ hfailed = {}

\* q56_worker: for(int i=0;i<a->n;i++) hash_insert(a->H,a->start+i);
\* and what hash_insert does before it takes a lock, all on its own locals:
\* int b=hfunc(H,k); node_t*n=(node_t*)malloc(sizeof(node_t)); with malloc
\* returning a node; n->key=k; pthread_mutex_init(&n->lock,NULL);
Q56Call(w) ==
  /\ hpc[w] = "loop"
  /\ hi[w] < hnops
  /\ hk' = [hk EXCEPT ![w] = (w - 1) * hnops + hi[w]]
  /\ hb' = [hb EXCEPT ![w] = hfunc((w - 1) * hnops + hi[w])]
  /\ hn' = [hn EXCEPT ![w] = <<(w - 1) * hnops + hi[w]>>]
  /\ hpc' = [hpc EXCEPT ![w] = IF hper = 0 THEN "h_glock" ELSE "h_block"]
  /\ UNCHANGED <<NotHash, hcfg, hhead, hblock, hglock, hi, hret, hmain,
                 hfailed>>

\* the same call when malloc returns NULL: if(!n) return; and the i++ of
\* q56_worker's loop.  At most MaxFail allocations fail in a run.
Q56CallFail(w) ==
  /\ hpc[w] = "loop"
  /\ hi[w] < hnops
  /\ Cardinality(hfailed) < MaxFail
  /\ hk' = [hk EXCEPT ![w] = (w - 1) * hnops + hi[w]]
  /\ hb' = [hb EXCEPT ![w] = hfunc((w - 1) * hnops + hi[w])]
  /\ hret' = [hret EXCEPT ![w] = "void"]
  /\ hfailed' = hfailed \cup {(w - 1) * hnops + hi[w]}
  /\ hi' = [hi EXCEPT ![w] = @ + 1]
  /\ UNCHANGED <<NotHash, hcfg, hhead, hblock, hglock, hpc, hn, hmain>>

Q56Return(w) ==
  /\ hpc[w] = "loop"
  /\ hi[w] >= hnops
  /\ hpc' = [hpc EXCEPT ![w] = "done"]
  /\ UNCHANGED <<NotHash, hcfg, hhead, hblock, hglock, hi, hk, hb, hn, hret,
                 hmain, hfailed>>

\* A variant of the step below: line 147 without its pthread_mutex_lock.
HashLockGlobalSkipped(w) ==
  /\ hpc[w] = "h_glock"
  /\ hn' = [hn EXCEPT ![w] = <<hk[w]>> \o hhead[hb[w]]]
  /\ hpc' = [hpc EXCEPT ![w] = "h_head"]
  /\ UNCHANGED <<NotHash, hcfg, hhead, hblock, hglock, hi, hk, hb, hret,
                 hmain, hfailed>>

\* if(!H->per_bucket){ pthread_mutex_lock(&H->glock); n->next=H->b[b].head;
\* taking a lock commutes with what other threads do after it, so the read
\* of head is made in the same step
HashLockGlobal(w) ==
  /\ hpc[w] = "h_glock"
  /\ hglock = 0
  /\ hglock' = w
  /\ hn' = [hn EXCEPT ![w] = <<hk[w]>> \o hhead[hb[w]]]
  /\ hpc' = [hpc EXCEPT ![w] = "h_head"]
  /\ UNCHANGED <<NotHash, hcfg, hhead, hblock, hi, hk, hb, hret, hmain,
                 hfailed>>

\* A variant of the step below: line 148 without its pthread_mutex_lock.
HashLockBucketSkipped(w) ==
  /\ hpc[w] = "h_block"
  /\ hn' = [hn EXCEPT ![w] = <<hk[w]>> \o hhead[hb[w]]]
  /\ hpc' = [hpc EXCEPT ![w] = "h_head"]
  /\ UNCHANGED <<NotHash, hcfg, hhead, hblock, hglock, hi, hk, hb, hret,
                 hmain, hfailed>>

\* else { pthread_mutex_lock(&H->b[b].lock); n->next=H->b[b].head;
HashLockBucket(w) ==
  /\ hpc[w] = "h_block"
  /\ hblock[hb[w]] = 0
  /\ hblock' = [hblock EXCEPT ![hb[w]] = w]
  /\ hn' = [hn EXCEPT ![w] = <<hk[w]>> \o hhead[hb[w]]]
  /\ hpc' = [hpc EXCEPT ![w] = "h_head"]
  /\ UNCHANGED <<NotHash, hcfg, hhead, hglock, hi, hk, hb, hret, hmain,
                 hfailed>>

\* H->b[b].head=n;
HashSetHead(w) ==
  /\ hpc[w] = "h_head"
  /\ hhead' = [hhead EXCEPT ![hb[w]] = hn[w]]
  /\ hn' = [hn EXCEPT ![w] = <<>>]
  /\ hpc' = [hpc EXCEPT ![w] = "h_unlock"]
  /\ UNCHANGED <<NotHash, hcfg, hblock, hglock, hi, hk, hb, hret, hmain,
                 hfailed>>

\* pthread_mutex_unlock(&H->glock); or pthread_mutex_unlock(&H->b[b].lock);
\* the return, and the i++ of q56_worker's loop
HashUnlock(w) ==
  /\ hpc[w] = "h_unlock"
  /\ hglock' = (IF hper = 0 THEN 0 ELSE hglock)
  /\ hblock' = (IF hper = 0 THEN hblock ELSE [hblock EXCEPT ![hb[w]] = 0])
  /\ hret' = [hret EXCEPT ![w] = "void"]
  /\ hi' = [hi EXCEPT ![w] = @ + 1]
  /\ hpc' = [hpc EXCEPT ![w] = "loop"]
  /\ UNCHANGED <<NotHash, hcfg, hhead, hk, hb, hn, hmain, hfailed>>

\* run_hash: pthread_join of every worker
HashJoin ==
  /\ hmain = "run"
  /\ hnt > 0
  /\ \A w \in HThreads : hpc[w] = "done"
  /\ hmain' = "end"
  /\ UNCHANGED <<NotHash, hcfg, hhead, hblock, hglock, hpc, hi, hk, hb, hn,
                 hret, hfailed>>

HashNext ==
  \/ \E w \in HThreads : Q56Call(w)
  \/ \E w \in HThreads : Q56CallFail(w)
  \/ \E w \in HThreads : Q56Return(w)
  \/ \E w \in HThreads : HashLockGlobal(w)
  \/ \E w \in HThreads : HashLockBucket(w)
  \/ \E w \in HThreads : HashSetHead(w)
  \/ \E w \in HThreads : HashUnlock(w)
  \/ HashJoin

(***************************************************************************)
(* hfunc on its own: a table made by hash_init with any nb, of which only  *)
(* H->nb is written out, and calls of hfunc(H, k) with any int k.          *)
(***************************************************************************)
IntMin == -IntMax - 1

\* the nb that hash_init is given: small ones of either sign, and those
\* from half of IntMax up
BucketArgs ==
  ((0 - MaxBuckets)..MaxBuckets)
    \cup {IntMax \div 2, IntMax \div 2 + 1, IntMax \div 2 + 2, IntMax - 1, IntMax}

\* the k that hfunc is given
KeyArgs ==
  ((0 - MaxKeyArg)..MaxKeyArg)
    \cup {IntMin + d : d \in 0..MaxKeyArg}
    \cup {IntMax - d : d \in 0..MaxKeyArg}
    \cup {IntMax \div 2, IntMax \div 2 + 1, 0 - (IntMax \div 2) - 1}

\* hash_init(H, nb, per) as far as hfunc goes: H->nb=nb>0?nb:101;
HfuncMain(nb, on) ==
  /\ fnbarg = nb
  /\ fnb = (IF on THEN hash_nb(nb) ELSE 0)
  /\ fk = 0
  /\ fb = 0
  /\ fpc = (IF on THEN "idle" ELSE "none")

\* a call hfunc(H, k)
HfuncCall(k) ==
  /\ fpc = "idle"
  /\ fk' = k
  /\ fpc' = "call"
  /\ UNCHANGED <<NotHfunc, fnbarg, fnb, fb>>

\* k%H->nb+H->nb is an int: return (k%H->nb+H->nb)%H->nb;
HfuncReturn ==
  /\ fpc = "call"
  /\ CRem(fk, fnb) <= IntMax - fnb
  /\ fb' = hfuncOn(fnb, fk)
  /\ fpc' = "ret"
  /\ UNCHANGED <<NotHfunc, fnbarg, fnb, fk>>

\* k%H->nb+H->nb is greater than IntMax: the addition overflows, and what
\* the call does from here on is undefined
HfuncOverflow ==
  /\ fpc = "call"
  /\ CRem(fk, fnb) > IntMax - fnb
  /\ fpc' = "overflow"
  /\ UNCHANGED <<NotHfunc, fnbarg, fnb, fk, fb>>

\* the sum k%H->nb+H->nb as a build that wraps around leaves it
WrappedSum == (CRem(fk, fnb) - IntMax - 1) + (fnb - IntMax - 1)

\* the call that overflowed returns what a build that wraps around
\* computes, or what a build that adds in a wider type computes; a build
\* that traps never returns, which is this step never being taken
HfuncUndefined ==
  /\ fpc = "overflow"
  /\ \E b \in {CRem(WrappedSum, fnb), fk % fnb} : fb' = b
  /\ fpc' = "ret"
  /\ UNCHANGED <<NotHfunc, fnbarg, fnb, fk>>

\* the caller goes on to its next call
HfuncDone ==
  /\ fpc = "ret"
  /\ fk' = 0
  /\ fb' = 0
  /\ fpc' = "idle"
  /\ UNCHANGED <<NotHfunc, fnbarg, fnb>>

HfuncNext ==
  \/ \E k \in KeyArgs : HfuncCall(k)
  \/ HfuncReturn
  \/ HfuncOverflow
  \/ HfuncUndefined
  \/ HfuncDone

(***************************************************************************)
(* The reader-writer lock.  Threads 1..rnr run reader, threads             *)
(* rnr+1..rnr+rnw run writer; one step per statement.                      *)
(***************************************************************************)
RReaders == 1..rnr

RWriters == (rnr + 1)..(rnr + rnw)

\* rwlock_init, and main up to the creation of the threads
RWMain(nr, nw, rn, wn) ==
  /\ rnr = nr
  /\ rnw = nw
  /\ rrn = rn
  /\ rwn = wn
  /\ readers = 0
  /\ lock = 1
  /\ writelock = 1
  /\ shared_data = 0
  /\ rpc = [t \in 1..(nr + nw) |-> "loop"]
  /\ ri = [t \in 1..(nr + nw) |-> 0]
  /\ rtmp = [t \in 1..(nr + nw) |-> 0]
  /\ rmain = "run"

\* reader: for (int i = 0; i < 3; i++) rwlock_acquire_readlock(&rwlock);
ReaderCall(t) ==
  /\ rpc[t] = "loop"
  /\ ri[t] < rrn
  /\ rpc' = [rpc EXCEPT ![t] = "ar_lock"]
  /\ UNCHANGED <<NotRW, rcfg, writelock, lock, readers, shared_data, ri, rtmp,
                 rmain>>

ReaderReturn(t) ==
  /\ rpc[t] = "loop"
  /\ ri[t] >= rrn
  /\ rpc' = [rpc EXCEPT ![t] = "done"]
  /\ UNCHANGED <<NotRW, rcfg, writelock, lock, readers, shared_data, ri, rtmp,
                 rmain>>

\* rwlock_acquire_readlock: Sem_wait(&rw->lock);
AcquireReadLock(t) ==
  /\ rpc[t] = "ar_lock"
  /\ lock > 0
  /\ lock' = lock - 1
  /\ rpc' = [rpc EXCEPT ![t] = "ar_inc"]
  /\ UNCHANGED <<NotRW, rcfg, writelock, readers, shared_data, ri, rtmp, rmain>>

\* rw->readers++;
AcquireReadInc(t) ==
  /\ rpc[t] = "ar_inc"
  /\ readers' = readers + 1
  /\ rpc' = [rpc EXCEPT ![t] = "ar_test"]
  /\ UNCHANGED <<NotRW, rcfg, writelock, lock, shared_data, ri, rtmp, rmain>>

\* if (rw->readers == 1)
AcquireReadTest(t) ==
  /\ rpc[t] = "ar_test"
  /\ rpc' = [rpc EXCEPT ![t] = IF readers = 1 THEN "ar_wlock" ELSE "ar_unlock"]
  /\ UNCHANGED <<NotRW, rcfg, writelock, lock, readers, shared_data, ri, rtmp,
                 rmain>>

\* A variant of the step below: the first reader does not wait for
\* writelock.
AcquireReadFirstNoWait(t) ==
  /\ rpc[t] = "ar_wlock"
  /\ rpc' = [rpc EXCEPT ![t] = "ar_unlock"]
  /\ UNCHANGED <<NotRW, rcfg, writelock, lock, readers, shared_data, ri, rtmp,
                 rmain>>

\* Sem_wait(&rw->writelock);
AcquireReadFirst(t) ==
  /\ rpc[t] = "ar_wlock"
  /\ writelock > 0
  /\ writelock' = writelock - 1
  /\ rpc' = [rpc EXCEPT ![t] = "ar_unlock"]
  /\ UNCHANGED <<NotRW, rcfg, lock, readers, shared_data, ri, rtmp, rmain>>

\* Sem_post(&rw->lock); and the return to reader
AcquireReadUnlock(t) ==
  /\ rpc[t] = "ar_unlock"
  /\ lock' = lock + 1
  /\ rpc' = [rpc EXCEPT ![t] = "read"]
  /\ UNCHANGED <<NotRW, rcfg, writelock, readers, shared_data, ri, rtmp, rmain>>

\* printf("Reader %d: read %d\n", id, shared_data); sleep(1); and the call
\* of rwlock_release_readlock
ReaderRead(t) ==
  /\ rpc[t] = "read"
  /\ rtmp' = [rtmp EXCEPT ![t] = shared_data]
  /\ rpc' = [rpc EXCEPT ![t] = "rr_lock"]
  /\ UNCHANGED <<NotRW, rcfg, writelock, lock, readers, shared_data, ri, rmain>>

\* rwlock_release_readlock: Sem_wait(&rw->lock);
ReleaseReadLock(t) ==
  /\ rpc[t] = "rr_lock"
  /\ lock > 0
  /\ lock' = lock - 1
  /\ rtmp' = [rtmp EXCEPT ![t] = 0]
  /\ rpc' = [rpc EXCEPT ![t] = "rr_dec"]
  /\ UNCHANGED <<NotRW, rcfg, writelock, readers, shared_data, ri, rmain>>

\* rw->readers--;
ReleaseReadDec(t) ==
  /\ rpc[t] = "rr_dec"
  /\ readers' = readers - 1
  /\ rpc' = [rpc EXCEPT ![t] = "rr_test"]
  /\ UNCHANGED <<NotRW, rcfg, writelock, lock, shared_data, ri, rtmp, rmain>>

\* if (rw->readers == 0)
ReleaseReadTest(t) ==
  /\ rpc[t] = "rr_test"
  /\ rpc' = [rpc EXCEPT ![t] = IF readers = 0 THEN "rr_wpost" ELSE "rr_unlock"]
  /\ UNCHANGED <<NotRW, rcfg, writelock, lock, readers, shared_data, ri, rtmp,
                 rmain>>

\* Sem_post(&rw->writelock);
ReleaseReadLast(t) ==
  /\ rpc[t] = "rr_wpost"
  /\ writelock' = writelock + 1
  /\ rpc' = [rpc EXCEPT ![t] = "rr_unlock"]
  /\ UNCHANGED <<NotRW, rcfg, lock, readers, shared_data, ri, rtmp, rmain>>

\* Sem_post(&rw->lock); the return, and the i++ of reader's loop
ReleaseReadUnlock(t) ==
  /\ rpc[t] = "rr_unlock"
  /\ lock' = lock + 1
  /\ ri' = [ri EXCEPT ![t] = @ + 1]
  /\ rpc' = [rpc EXCEPT ![t] = "loop"]
  /\ UNCHANGED <<NotRW, rcfg, writelock, readers, shared_data, rtmp, rmain>>

\* writer: for (int i = 0; i < 2; i++) rwlock_acquire_writelock(&rwlock);
WriterCall(t) ==
  /\ rpc[t] = "loop"
  /\ ri[t] < rwn
  /\ rpc' = [rpc EXCEPT ![t] = "aw_wait"]
  /\ UNCHANGED <<NotRW, rcfg, writelock, lock, readers, shared_data, ri, rtmp,
                 rmain>>

WriterReturn(t) ==
  /\ rpc[t] = "loop"
  /\ ri[t] >= rwn
  /\ rpc' = [rpc EXCEPT ![t] = "done"]
  /\ UNCHANGED <<NotRW, rcfg, writelock, lock, readers, shared_data, ri, rtmp,
                 rmain>>

\* rwlock_acquire_writelock: Sem_wait(&rw->writelock);
AcquireWrite(t) ==
  /\ rpc[t] = "aw_wait"
  /\ writelock > 0
  /\ writelock' = writelock - 1
  /\ rpc' = [rpc EXCEPT ![t] = "w_load"]
  /\ UNCHANGED <<NotRW, rcfg, lock, readers, shared_data, ri, rtmp, rmain>>

\* shared_data++; the load
WriterLoad(t) ==
  /\ rpc[t] = "w_load"
  /\ rtmp' = [rtmp EXCEPT ![t] = shared_data]
  /\ rpc' = [rpc EXCEPT ![t] = "w_store"]
  /\ UNCHANGED <<NotRW, rcfg, writelock, lock, readers, shared_data, ri, rmain>>

\* shared_data++; the store, then printf and sleep(2)
WriterStore(t) ==
  /\ rpc[t] = "w_store"
  /\ shared_data' = rtmp[t] + 1
  /\ rtmp' = [rtmp EXCEPT ![t] = 0]
  /\ rpc' = [rpc EXCEPT ![t] = "rw_post"]
  /\ UNCHANGED <<NotRW, rcfg, writelock, lock, readers, ri, rmain>>

\* rwlock_release_writelock: Sem_post(&rw->writelock); and the i++ of
\* writer's loop
ReleaseWrite(t) ==
  /\ rpc[t] = "rw_post"
  /\ writelock' = writelock + 1
  /\ ri' = [ri EXCEPT ![t] = @ + 1]
  /\ rpc' = [rpc EXCEPT ![t] = "loop"]
  /\ UNCHANGED <<NotRW, rcfg, lock, readers, shared_data, rtmp, rmain>>

\* main: Pthread_join of every reader and of every writer
RWJoin ==
  /\ rmain = "run"
  /\ rnr + rnw > 0
  /\ \A t \in RReaders \cup RWriters : rpc[t] = "done"
  /\ rmain' = "end"
  /\ UNCHANGED <<NotRW, rcfg, writelock, lock, readers, shared_data, rpc, ri,
                 rtmp>>

RWNext ==
  \/ \E t \in RReaders : ReaderCall(t)
  \/ \E t \in RReaders : ReaderReturn(t)
  \/ \E t \in RReaders : AcquireReadLock(t)
  \/ \E t \in RReaders : AcquireReadInc(t)
  \/ \E t \in RReaders : AcquireReadTest(t)
  \/ \E t \in RReaders : AcquireReadFirst(t)
  \/ \E t \in RReaders : AcquireReadUnlock(t)
  \/ \E t \in RReaders : ReaderRead(t)
  \/ \E t \in RReaders : ReleaseReadLock(t)
  \/ \E t \in RReaders : ReleaseReadDec(t)
  \/ \E t \in RReaders : ReleaseReadTest(t)
  \/ \E t \in RReaders : ReleaseReadLast(t)
  \/ \E t \in RReaders : ReleaseReadUnlock(t)
  \/ \E t \in RWriters : WriterCall(t)
  \/ \E t \in RWriters : WriterReturn(t)
  \/ \E t \in RWriters : AcquireWrite(t)
  \/ \E t \in RWriters : WriterLoad(t)
  \/ \E t \in RWriters : WriterStore(t)
  \/ \E t \in RWriters : ReleaseWrite(t)
  \/ RWJoin

\* main up to the creation of thread_a: Sem_init(&sem_a, 0);
\* Sem_init(&sem_b, 0);
RendezvousMain(on) ==
  /\ sem_a = 0
  /\ sem_b = 0
  /\ zpc = [t \in {"a", "b"} |-> "none"]
  /\ zmain = (IF on THEN "create_a" ELSE "none")
  /\ stdout = <<>>

\* thread_a: printf("Thread A: doing work before rendezvous\n");
ADoWork ==
  /\ zpc["a"] = "work"
  /\ stdout' = Append(stdout, "A: doing work before rendezvous")
  /\ zpc' = [zpc EXCEPT !["a"] = "post"]
  /\ UNCHANGED <<sem_a, sem_b, zmain, NotRendezvous>>

\* thread_a: Sem_post(&sem_a);
APost ==
  /\ zpc["a"] = "post"
  /\ sem_a' = sem_a + 1
  /\ zpc' = [zpc EXCEPT !["a"] = "wait"]
  /\ UNCHANGED <<sem_b, zmain, stdout, NotRendezvous>>

\* thread_a without its wait for B
AWaitSkipped ==
  /\ zpc["a"] = "wait"
  /\ zpc' = [zpc EXCEPT !["a"] = "cont"]
  /\ UNCHANGED <<sem_a, sem_b, zmain, stdout, NotRendezvous>>

\* thread_a: Sem_wait(&sem_b); the call takes the semaphore when it is
\* positive and puts the thread to sleep when it is zero
AWait ==
  /\ zpc["a"] = "wait"
  /\ IF sem_b > 0
       THEN /\ sem_b' = sem_b - 1
            /\ zpc' = [zpc EXCEPT !["a"] = "cont"]
       ELSE /\ sem_b' = sem_b
            /\ zpc' = [zpc EXCEPT !["a"] = "asleep"]
  /\ UNCHANGED <<sem_a, zmain, stdout, NotRendezvous>>

\* thread_a: Sem_wait(&sem_b); a sleeping thread is woken by the post, takes
\* the semaphore and returns from the call
AWake ==
  /\ zpc["a"] = "asleep"
  /\ sem_b > 0
  /\ sem_b' = sem_b - 1
  /\ zpc' = [zpc EXCEPT !["a"] = "cont"]
  /\ UNCHANGED <<sem_a, zmain, stdout, NotRendezvous>>

\* thread_a: printf("Thread A: continuing after rendezvous\n");
AContinue ==
  /\ zpc["a"] = "cont"
  /\ stdout' = Append(stdout, "A: continuing after rendezvous")
  /\ zpc' = [zpc EXCEPT !["a"] = "ret"]
  /\ UNCHANGED <<sem_a, sem_b, zmain, NotRendezvous>>

\* thread_a: return NULL;
AReturn ==
  /\ zpc["a"] = "ret"
  /\ zpc' = [zpc EXCEPT !["a"] = "done"]
  /\ UNCHANGED <<sem_a, sem_b, zmain, stdout, NotRendezvous>>

\* thread_b: printf("Thread B: doing work before rendezvous\n");
BDoWork ==
  /\ zpc["b"] = "work"
  /\ stdout' = Append(stdout, "B: doing work before rendezvous")
  /\ zpc' = [zpc EXCEPT !["b"] = "post"]
  /\ UNCHANGED <<sem_a, sem_b, zmain, NotRendezvous>>

\* thread_b: Sem_post(&sem_b);
BPost ==
  /\ zpc["b"] = "post"
  /\ sem_b' = sem_b + 1
  /\ zpc' = [zpc EXCEPT !["b"] = "wait"]
  /\ UNCHANGED <<sem_a, zmain, stdout, NotRendezvous>>

\* thread_b: Sem_wait(&sem_a); the call takes the semaphore when it is
\* positive and puts the thread to sleep when it is zero
BWait ==
  /\ zpc["b"] = "wait"
  /\ IF sem_a > 0
       THEN /\ sem_a' = sem_a - 1
            /\ zpc' = [zpc EXCEPT !["b"] = "cont"]
       ELSE /\ sem_a' = sem_a
            /\ zpc' = [zpc EXCEPT !["b"] = "asleep"]
  /\ UNCHANGED <<sem_b, zmain, stdout, NotRendezvous>>

\* thread_b: Sem_wait(&sem_a); a sleeping thread is woken by the post, takes
\* the semaphore and returns from the call
BWake ==
  /\ zpc["b"] = "asleep"
  /\ sem_a > 0
  /\ sem_a' = sem_a - 1
  /\ zpc' = [zpc EXCEPT !["b"] = "cont"]
  /\ UNCHANGED <<sem_b, zmain, stdout, NotRendezvous>>

\* thread_b: printf("Thread B: continuing after rendezvous\n");
BContinue ==
  /\ zpc["b"] = "cont"
  /\ stdout' = Append(stdout, "B: continuing after rendezvous")
  /\ zpc' = [zpc EXCEPT !["b"] = "ret"]
  /\ UNCHANGED <<sem_a, sem_b, zmain, NotRendezvous>>

\* thread_b: return NULL;
BReturn ==
  /\ zpc["b"] = "ret"
  /\ zpc' = [zpc EXCEPT !["b"] = "done"]
  /\ UNCHANGED <<sem_a, sem_b, zmain, stdout, NotRendezvous>>

\* main: Pthread_create(&a, NULL, thread_a, NULL);
CreateA ==
  /\ zmain = "create_a"
  /\ zpc' = [zpc EXCEPT !["a"] = "work"]
  /\ zmain' = "create_b"
  /\ UNCHANGED <<sem_a, sem_b, stdout, NotRendezvous>>

\* main: Pthread_create(&b, NULL, thread_b, NULL);
CreateB ==
  /\ zmain = "create_b"
  /\ zpc' = [zpc EXCEPT !["b"] = "work"]
  /\ zmain' = "join_a"
  /\ UNCHANGED <<sem_a, sem_b, stdout, NotRendezvous>>

\* main: Pthread_join(a, NULL);
JoinA ==
  /\ zmain = "join_a"
  /\ zpc["a"] = "done"
  /\ zmain' = "join_b"
  /\ UNCHANGED <<sem_a, sem_b, zpc, stdout, NotRendezvous>>

\* main: Pthread_join(b, NULL);
JoinB ==
  /\ zmain = "join_b"
  /\ zpc["b"] = "done"
  /\ zmain' = "print"
  /\ UNCHANGED <<sem_a, sem_b, zpc, stdout, NotRendezvous>>

\* main: printf("Both threads completed!\n");
MainPrint ==
  /\ zmain = "print"
  /\ stdout' = Append(stdout, "Both threads completed!")
  /\ zmain' = "ret"
  /\ UNCHANGED <<sem_a, sem_b, zpc, NotRendezvous>>

\* main: return 0;
MainReturn ==
  /\ zmain = "ret"
  /\ zmain' = "done"
  /\ UNCHANGED <<sem_a, sem_b, zpc, stdout, NotRendezvous>>

ThreadA ==
  \/ ADoWork
  \/ APost
  \/ AWait
  \/ AWake
  \/ AContinue
  \/ AReturn

ThreadB ==
  \/ BDoWork
  \/ BPost
  \/ BWait
  \/ BWake
  \/ BContinue
  \/ BReturn

RendezvousMainSteps ==
  \/ CreateA
  \/ CreateB
  \/ JoinA
  \/ JoinB
  \/ MainPrint
  \/ MainReturn

RendezvousNext ==
  \/ ThreadA
  \/ ThreadB
  \/ RendezvousMainSteps

(***************************************************************************)
(* Specifications: one per program, the other programs not started.        *)
(***************************************************************************)
ListInit ==
  /\ \E hoh \in {0, 1} : ListMain(ListThreads, ListOps, hoh)
  /\ TicketMain(0, 0, FALSE)
  /\ CounterMain(0, 0, 0, 1)
  /\ HashMain(0, 0, 1, 0)
  /\ HfuncMain(0, FALSE)
  /\ RWMain(0, 0, 0, 0)
  /\ RendezvousMain(FALSE)

CounterInit ==
  /\ \E th \in (0 - 1)..MaxThreshold, ncpu \in 1..CounterThreads :
       CounterMain(CounterThreads, CounterIters, th, ncpu)
  /\ TicketMain(0, 0, FALSE)
  /\ ListMain(0, 0, 0)
  /\ HashMain(0, 0, 1, 0)
  /\ HfuncMain(0, FALSE)
  /\ RWMain(0, 0, 0, 0)
  /\ RendezvousMain(FALSE)

TicketInit ==
  /\ TicketMain(NumWorkers, Iters, FALSE)
  /\ CounterMain(0, 0, 0, 1)
  /\ ListMain(0, 0, 0)
  /\ HashMain(0, 0, 1, 0)
  /\ HfuncMain(0, FALSE)
  /\ RWMain(0, 0, 0, 0)
  /\ RendezvousMain(FALSE)

LongInit ==
  /\ TicketMain(LongWorkers, LongIters, TRUE)
  /\ CounterMain(0, 0, 0, 1)
  /\ ListMain(0, 0, 0)
  /\ HashMain(0, 0, 1, 0)
  /\ HfuncMain(0, FALSE)
  /\ RWMain(0, 0, 0, 0)
  /\ RendezvousMain(FALSE)

SpecTicket == TicketInit /\ [][TicketNext]_vars

SpecTicketLong == LongInit /\ [][TicketNext]_vars

SpecCounter == CounterInit /\ [][CounterNext]_vars

SpecList == ListInit /\ [][ListNext]_vars

HashInit ==
  /\ \E nb \in 1..MaxBuckets, per \in {0, 1} :
       HashMain(HashThreads, HashOps, nb, per)
  /\ TicketMain(0, 0, FALSE)
  /\ CounterMain(0, 0, 0, 1)
  /\ ListMain(0, 0, 0)
  /\ HfuncMain(0, FALSE)
  /\ RWMain(0, 0, 0, 0)
  /\ RendezvousMain(FALSE)

SpecHash == HashInit /\ [][HashNext]_vars

HfuncInit ==
  /\ \E nb \in BucketArgs : HfuncMain(nb, TRUE)
  /\ TicketMain(0, 0, FALSE)
  /\ CounterMain(0, 0, 0, 1)
  /\ ListMain(0, 0, 0)
  /\ HashMain(0, 0, 1, 0)
  /\ RWMain(0, 0, 0, 0)
  /\ RendezvousMain(FALSE)

SpecHfunc == HfuncInit /\ [][HfuncNext]_vars

\* builds with fewer slots than callers
WindowInit ==
  /\ \E n \in 1..MaxSlots : TicketStart(WindowWorkers, WindowIters, FALSE, n)
  /\ CounterMain(0, 0, 0, 1)
  /\ ListMain(0, 0, 0)
  /\ HashMain(0, 0, 1, 0)
  /\ HfuncMain(0, FALSE)
  /\ RWMain(0, 0, 0, 0)
  /\ RendezvousMain(FALSE)

SpecWindow == WindowInit /\ [][TicketNext]_vars

RWInit ==
  /\ RWMain(RWReaders, RWWriters, ReaderIters, WriterIters)
  /\ TicketMain(0, 0, FALSE)
  /\ CounterMain(0, 0, 0, 1)
  /\ ListMain(0, 0, 0)
  /\ HashMain(0, 0, 1, 0)
  /\ HfuncMain(0, FALSE)
  /\ RendezvousMain(FALSE)

SpecRW == RWInit /\ [][RWNext]_vars

RendezvousInit ==
  /\ RendezvousMain(TRUE)
  /\ TicketMain(0, 0, FALSE)
  /\ CounterMain(0, 0, 0, 1)
  /\ ListMain(0, 0, 0)
  /\ HashMain(0, 0, 1, 0)
  /\ HfuncMain(0, FALSE)
  /\ RWMain(0, 0, 0, 0)

\* each thread that can take a step eventually takes one
SpecRendezvous ==
  /\ RendezvousInit
  /\ [][RendezvousNext]_vars
  /\ WF_vars(ThreadA)
  /\ WF_vars(ThreadB)
  /\ WF_vars(RendezvousMainSteps)

\* callers of approx_update whose shard ids are any integers of
\* -MaxTid..MaxTid
ShardInit ==
  /\ \E th \in 1..MaxThreshold, ncpu \in 1..CounterThreads :
       \E tids \in [1..CounterThreads -> (0 - MaxTid)..MaxTid] :
         CounterStart(CounterThreads, ShardIters, th, ncpu, tids)
  /\ TicketMain(0, 0, FALSE)
  /\ ListMain(0, 0, 0)
  /\ HashMain(0, 0, 1, 0)
  /\ HfuncMain(0, FALSE)
  /\ RWMain(0, 0, 0, 0)
  /\ RendezvousMain(FALSE)

SpecShard == ShardInit /\ [][ShardNext]_vars

\* any one of the four fork/join workloads: the workers of main of
\* mutex-nostarve.c, of run_q3, of a run on the list, or of run_hash
RunInit ==
  \/ /\ TicketMain(RunThreads, RunIters, FALSE)
     /\ CounterMain(0, 0, 0, 1)
     /\ ListMain(0, 0, 0)
     /\ HashMain(0, 0, 1, 0)
     /\ HfuncMain(0, FALSE)
     /\ RWMain(0, 0, 0, 0)
     /\ RendezvousMain(FALSE)
  \/ /\ \E th \in 0..RunIters, ncpu \in 1..RunThreads :
          CounterMain(RunThreads, RunIters, th, ncpu)
     /\ TicketMain(0, 0, FALSE)
     /\ ListMain(0, 0, 0)
     /\ HashMain(0, 0, 1, 0)
     /\ HfuncMain(0, FALSE)
     /\ RWMain(0, 0, 0, 0)
     /\ RendezvousMain(FALSE)
  \/ /\ \E hoh \in {0, 1} : ListMain(RunThreads, RunIters, hoh)
     /\ TicketMain(0, 0, FALSE)
     /\ CounterMain(0, 0, 0, 1)
     /\ HashMain(0, 0, 1, 0)
     /\ HfuncMain(0, FALSE)
     /\ RWMain(0, 0, 0, 0)
     /\ RendezvousMain(FALSE)
  \/ /\ \E nb \in 1..RunThreads, per \in {0, 1} :
          HashMain(RunThreads, RunHashOps, nb, per)
     /\ TicketMain(0, 0, FALSE)
     /\ CounterMain(0, 0, 0, 1)
     /\ ListMain(0, 0, 0)
     /\ HfuncMain(0, FALSE)
     /\ RWMain(0, 0, 0, 0)
     /\ RendezvousMain(FALSE)

RunNext ==
  \/ TicketNext
  \/ CounterNext
  \/ ListNext
  \/ HashNext

\* a thread that can take a step is not held back for ever
SpecRuns == RunInit /\ [][RunNext]_vars /\ WF_vars(RunNext)

\* the three programs that nest locks: the ticket lock, the counter, and
\* the list under concurrent inserts and lookups
OrderInit ==
  \/ /\ TicketMain(RunThreads, RunIters, FALSE)
     /\ CounterMain(0, 0, 0, 1)
     /\ ListMain(0, 0, 0)
     /\ HashMain(0, 0, 1, 0)
     /\ HfuncMain(0, FALSE)
     /\ RWMain(0, 0, 0, 0)
     /\ RendezvousMain(FALSE)
  \/ /\ \E th \in 0..RunIters, ncpu \in 1..RunThreads :
          CounterMain(RunThreads, RunIters, th, ncpu)
     /\ TicketMain(0, 0, FALSE)
     /\ ListMain(0, 0, 0)
     /\ HashMain(0, 0, 1, 0)
     /\ HfuncMain(0, FALSE)
     /\ RWMain(0, 0, 0, 0)
     /\ RendezvousMain(FALSE)
  \/ /\ \E hoh \in {0, 1} : ListMain(ListThreads, ListOps, hoh)
     /\ TicketMain(0, 0, FALSE)
     /\ CounterMain(0, 0, 0, 1)
     /\ HashMain(0, 0, 1, 0)
     /\ HfuncMain(0, FALSE)
     /\ RWMain(0, 0, 0, 0)
     /\ RendezvousMain(FALSE)

OrderNext ==
  \/ TicketNext
  \/ CounterNext
  \/ ListNext

SpecOrder == OrderInit /\ [][OrderNext]_vars

(***************************************************************************)
(* Properties of the ticket lock.                                          *)
(***************************************************************************)
Holding(w) == tpc[w] \in {"cs_read", "cs_write", "r_mutex"}

Granted(w) == tpc[w] \in {"a_leave", "cs_read", "cs_write", "r_mutex", "r_turn"}

InRoom(w) == tpc[w] \in {"a_mutex", "a_ticket", "a_unmutex", "a_queue"}

\* C1: at most one worker is between the return of ns_mutex_acquire and its
\* call of ns_mutex_release.
MutualExclusion ==
  \A v, w \in TWorkers : (v # w) => ~(Holding(v) /\ Holding(w))

\* C1 witness: one worker holds the lock while another, whose ticket has
\* wrapped around the slot array, is blocked on its slot.
MutualExclusionWitness ==
  \E v, w \in TWorkers :
    /\ v # w
    /\ Holding(v)
    /\ tpc[w] = "a_queue"
    /\ my_ticket[w] >= MAX_THREADS
    /\ queue[my_ticket[w] % MAX_THREADS] = 0

\* C2: grants happen in ticket order 0, 1, 2, ...; the worker that has been
\* granted the lock holds ticket turn, and a signaled slot is the slot of the
\* waiter whose ticket is turn.
TicketFIFO ==
  /\ \A k \in DOMAIN grants : grants[k] = k - 1
  /\ \A w \in TWorkers : Granted(w) => my_ticket[w] = turn
  /\ \A w \in TWorkers :
       (tpc[w] = "a_queue" /\ queue[my_ticket[w] % MAX_THREADS] > 0)
         => my_ticket[w] = turn

\* C2 witness: after a release has signaled the next slot, the waiter with
\* the next ticket is about to be granted, and more than a slot array's worth
\* of grants have gone before.
TicketFIFOWitness ==
  \E w \in TWorkers :
    /\ tpc[w] = "a_queue"
    /\ queue[my_ticket[w] % MAX_THREADS] > 0
    /\ Len(grants) > MAX_THREADS
    /\ \E v \in TWorkers : v # w /\ tpc[v] = "r_unmutex"

\* C3, as claimed: a worker inside ns_mutex_acquire sees at most
\* MAX_THREADS - 1 grants to other workers before its own.
BoundedBypass ==
  \A w \in TWorkers : bypass[w] <= MAX_THREADS - 1

\* C4, as claimed: the worker that has passed Sem_wait(room) is the one that
\* called ns_mutex_acquire first among those not yet granted.
ArrivalOrder ==
  \A w \in TWorkers : InRoom(w) => Head(waitq) = w

(***************************************************************************)
(* Properties of the approximate counter.                                  *)
(***************************************************************************)
AllUpdatesDone == \A t \in CThreads : cpc[t] = "done"

\* a flush of shard s has added local[s] to global and not yet reset it
MidFlush(s) ==
  \E t \in CThreads : cpc[t] \in {"u_gunlock", "u_reset"} /\ ccpu[t] = s

\* approx_update calls that fall on shard s once every worker has finished
CallsOn(s) == cit * Cardinality({t \in CThreads : Tid(t) % cncpu = s})

\* C5: once every worker has finished, global plus the residue of every
\* shard (what approx_get would return after a drain) is threads * iters.
ExactAfterDrain ==
  AllUpdatesDone => cglobal + SumOver(clocal, Shards) = cnt * cit

\* C5 witness: every worker has finished, two workers shared a shard, part
\* of the total was flushed and part is residue.
ExactAfterDrainWitness ==
  /\ AllUpdatesDone
  /\ cncpu < cnt
  /\ cglobal > 0
  /\ SumOver(clocal, Shards) > 0

\* C6, as claimed: at every instant the increments applied so far equal
\* global + sum(local).
AccountingAlways == capplied = cglobal + SumOver(clocal, Shards)

\* C6, amended: the increments applied so far equal global plus the local
\* values of the shards that are not between the addition to global and the
\* reset of local inside a flush.
AccountingOutsideFlush ==
  capplied =
    cglobal
      + SumOver([s \in Shards |-> IF MidFlush(s) THEN 0 ELSE clocal[s]], Shards)

\* C6 witness: a flush has added a positive local value to global and not
\* yet reset it, while another shard holds a residue.
AccountingWitness ==
  \E s, r \in Shards :
    /\ s # r
    /\ MidFlush(s)
    /\ clocal[s] > 0
    /\ clocal[r] > 0

\* C7: for threshold >= 1, approx_get after the join returns, summed over the
\* shards, threshold * floor(calls on the shard / threshold).
ReadTotalFlushedOnly ==
  (cmain = "end" /\ cth >= 1) =>
    ctotal = SumOver([s \in Shards |-> cth * (CallsOn(s) \div cth)], Shards)

\* C7 witness: approx_get has returned a positive total that leaves out a
\* residue.
ReadTotalWitness ==
  /\ cmain = "end"
  /\ cth >= 2
  /\ ctotal > 0
  /\ ctotal < cnt * cit

(***************************************************************************)
(* Properties of the linked list.                                          *)
(***************************************************************************)
RECURSIVE Walk(_, _)
\* the nodes met from n by following next, at most fuel of them
Walk(n, fuel) ==
  IF n \notin Nodes \/ fuel = 0 THEN <<>>
  ELSE <<n>> \o Walk(nnext[n], fuel - 1)

Chain == Walk(lhead, lno + 1)

ChainSet == {Chain[i] : i \in DOMAIN Chain}

KeyCount(k) ==
  LET c == Chain
  IN Cardinality({i \in DOMAIN c : nkey[c[i]] = k})

\* n is linked in the chain whose nodes are S: it is one of them, holds a key,
\* and its next is NULL or one of them
LinkedIn(n, S) ==
  /\ n \in S
  /\ nkey[n] \in Keys
  /\ nnext[n] = NULL \/ nnext[n] \in S

\* the chain from head is a list of distinct linked nodes that ends in NULL
ChainOK ==
  LET c == Chain
      S == {c[i] : i \in DOMAIN c}
  IN /\ lhead = NULL \/ lhead \in 1..nalloc
     /\ Len(c) <= nalloc
     /\ Cardinality(S) = Len(c)
     /\ \A n \in S : LinkedIn(n, S)

NoInsertInProgress == \A v \in LThreads : ~InsertInProgress(v)

Returned(w, op) == lpc[w] = "idle" /\ lop[w] = op

\* C8: a lookup that no insert overlapped returns 0 if a list_insert of its
\* key had returned 0 before, and -1 otherwise, in either mode.
RoundTrip ==
  \A w \in LThreads :
    (Returned(w, "lookup") /\ ~ldirty[w]) =>
      /\ lrv[w] \in {0, -1}
      /\ lrv[w] = 0 <=> lkey[w] \in lsnap[w]

\* C8 witness: in hand-over-hand mode a lookup of an inserted key has
\* returned 0 while another thread's lookup holds a node lock, no insert
\* overlapping either.
RoundTripWitness ==
  \E w, v \in LThreads :
    /\ lhoh = 1
    /\ Returned(w, "lookup")
    /\ ~ldirty[w]
    /\ lrv[w] = 0
    /\ LookupInProgress(v)
    /\ ~ldirty[v]
    /\ lc[v] # NULL
    /\ nlock[lc[v]] = v

\* C9: when no insert is in progress, the chain from head is a list of
\* distinct nodes ending in NULL that holds each key once per list_insert of
\* it that returned 0.
NoLostInsert ==
  NoInsertInProgress =>
    /\ ChainOK
    /\ \A k \in Keys : KeyCount(k) = linserted[k]

\* C9 witness: hand-over-hand inserts of two distinct keys, which were in
\* progress at the same time, have both returned.
NoLostInsertWitness ==
  /\ lhoh = 1
  /\ loverlap
  /\ NoInsertInProgress
  /\ linserted[1] = 1
  /\ linserted[2] = 1

\* the nodes a lookup holds in c and n are linked nodes
LookupSeesLinked ==
  LET S == ChainSet
  IN \A w \in LThreads :
       LookupInProgress(w) =>
         /\ lc[w] # NULL => LinkedIn(lc[w], S)
         /\ ln[w] # NULL => LinkedIn(ln[w], S)

\* a lookup of a key whose insert had returned 0 before the call returns 0
InsertedIsFound ==
  \A w \in LThreads :
    (Returned(w, "lookup") /\ lkey[w] \in lsnap[w]) => lrv[w] = 0

\* the key and next of a node on the chain do not change
LinkedIsFinal ==
  nkey' # nkey \/ nnext' # nnext =>
    \A n \in ChainSet : nkey'[n] = nkey[n] /\ nnext'[n] = nnext[n]

\* C10: a lookup only ever holds linked nodes, whose key and next are final,
\* the chain never dangles, and a lookup of a key inserted before it was
\* called returns 0, whatever inserts run meanwhile.
NoTornLink ==
  /\ [](LookupSeesLinked /\ ChainOK /\ InsertedIsFound)
  /\ [][LinkedIsFinal]_vars

\* C10 witness: a hand-over-hand insert waits for the lock of the head node,
\* which a lookup that is inspecting that node holds.
NoTornLinkWitness ==
  \E w, v \in LThreads :
    /\ lhoh = 1
    /\ lpc[w] = "k_test"
    /\ lc[w] # NULL
    /\ lc[w] = lhead
    /\ lpc[v] = "h_lockhead"

(***************************************************************************)
(* Properties of the hash table.                                           *)
(***************************************************************************)
\* the worker whose range of keys holds k
KeyOwner(k) == (k \div hnops) + 1

\* key k is held by a node of bucket b's chain
HashHolds(b, k) == \E i \in DOMAIN hhead[b] : hhead[b][i] = k

\* the hash_insert of key k has returned after linking its node
HashInserted(k) ==
  /\ k \notin hfailed
  /\ k < (KeyOwner(k) - 1) * hnops + hi[KeyOwner(k)]

\* the thread is between the lock and the unlock of hash_insert
InCS(w) == hpc[w] \in {"h_head", "h_unlock"}

\* C11: in global-lock mode and in per-bucket mode alike, a key is stored at
\* most once and only in bucket k mod nb, every key whose hash_insert linked
\* a node and returned is stored, and once the workers are joined bucket b
\* holds exactly the keys of 0..M-1 with k mod nb = b whose node was
\* allocated: the same multiset whatever the mode and the interleaving.
GranularityIrrelevant ==
  /\ \A b \in Buckets :
       /\ \A i \in DOMAIN hhead[b] :
            /\ hhead[b][i] \in HKeys
            /\ hhead[b][i] % hnb = b
            /\ hhead[b][i] \notin hfailed
       /\ \A i, j \in DOMAIN hhead[b] : hhead[b][i] = hhead[b][j] => i = j
  /\ \A k \in HKeys : HashInserted(k) => HashHolds(k % hnb, k)
  /\ hmain = "end" => \A k \in HKeys \ hfailed : HashHolds(k % hnb, k)

\* C11 witness: a per-bucket run without allocation failure has ended, and
\* one bucket's chain holds a key of one worker between two keys of another.
GranularityWitness ==
  /\ hper = 1
  /\ hmain = "end"
  /\ hfailed = {}
  /\ \E b \in Buckets : \E i, j, l \in DOMAIN hhead[b] :
       /\ i < j
       /\ j < l
       /\ KeyOwner(hhead[b][i]) = KeyOwner(hhead[b][l])
       /\ KeyOwner(hhead[b][i]) # KeyOwner(hhead[b][j])

\* C12: in global-lock mode a thread inside the critical section of
\* hash_insert holds the table lock and no two threads are inside; in
\* per-bucket mode the table lock is never taken, a thread inside holds the
\* lock of bucket k mod nb and no other, and no two threads are inside for
\* the same bucket.
HashSerialization ==
  /\ hper = 0 =>
       /\ \A b \in Buckets : hblock[b] = 0
       /\ \A w \in HThreads : InCS(w) <=> hglock = w
       /\ \A w, v \in HThreads : (InCS(w) /\ InCS(v)) => w = v
  /\ hper = 1 =>
       /\ hglock = 0
       /\ \A w \in HThreads : \A b \in Buckets :
            hblock[b] = w <=> (InCS(w) /\ b = hk[w] % hnb)
       /\ \A w, v \in HThreads :
            (InCS(w) /\ InCS(v) /\ hk[w] % hnb = hk[v] % hnb) => w = v

\* C12 witness: in per-bucket mode two threads are inside the critical
\* section at once, each holding the lock of its own bucket.
HashSerializationWitness ==
  /\ hper = 1
  /\ \E w, v \in HThreads :
       /\ w # v
       /\ InCS(w)
       /\ InCS(v)
       /\ hb[w] # hb[v]
       /\ hblock[hb[w]] = w
       /\ hblock[hb[v]] = v

\* C18 as the claim states it: a hash_insert whose allocation failed gives
\* its caller something other than what a successful one gives.
HashFailureSignaled ==
  \A w \in HThreads :
    (hpc[w] \in {"loop", "done"} /\ hret[w] # "none" /\ hk[w] \in hfailed)
      => hret[w] # "void"

(***************************************************************************)
(* Further properties of the ticket lock.                                  *)
(***************************************************************************)
\* the worker has executed counter++ in this iteration and not yet left
\* ns_mutex_release
Incremented(w) == tpc[w] \in {"r_mutex", "r_turn", "r_post", "r_unmutex"}

\* the worker's Sem_wait on its slot has returned and its ns_mutex_release
\* has not yet signaled the next slot
HoldsSlot(w) ==
  tpc[w] \in {"a_leave", "cs_read", "cs_write", "r_mutex", "r_turn", "r_post"}

RECURSIVE SumTo(_, _)
\* f[1] + ... + f[n]
SumTo(f, n) == IF n = 0 THEN 0 ELSE f[n] + SumTo(f, n - 1)

\* C13: counter is the number of counter++ executed, one per iteration a
\* worker has made past its critical section; the value a worker loaded is
\* still counter's when it stores value + 1; and when main has joined the
\* workers counter is W*K.
NoLostUpdate ==
  /\ counter = SumTo([w \in TWorkers |->
                            ti[w] + (IF Incremented(w) THEN 1 ELSE 0)], tw)
  /\ \A w \in TWorkers : tpc[w] = "cs_write" => ttmp[w] = counter
  /\ tmain = "end" => counter = tw * tn

\* C13 witness: main has joined the workers of a run that used more tickets
\* than there are slots, and counter is W*K.
NoLostUpdateWitness ==
  /\ tmain = "end"
  /\ tw > 1
  /\ ticket > MAX_THREADS
  /\ counter = tw * tn

\* C20: every slot semaphore other than turn's is 0 and turn's is at most
\* 1, so the slots sum to at most 1; the sum is 1 exactly when no worker
\* holds the lock; before the first ticket is drawn the signaled slot is
\* slot 0.
SlotInvariant ==
  /\ \A s \in Slots : queue[s] > 0 => s = turn % MAX_THREADS
  /\ queue[turn % MAX_THREADS] <= 1
  /\ queue[turn % MAX_THREADS] = 1 <=> ~(\E w \in TWorkers : HoldsSlot(w))
  /\ ticket = 0 => queue = [s \in Slots |-> IF s = 0 THEN 1 ELSE 0]

\* C20 witness: after the slot index has wrapped, no worker holds the lock,
\* a slot other than slot 0 is the signaled one, and a worker is about to
\* wait for it.
SlotInvariantWitness ==
  /\ turn > MAX_THREADS
  /\ queue[0] = 0
  /\ queue[turn % MAX_THREADS] = 1
  /\ \E w \in TWorkers : tpc[w] = "a_queue" /\ my_ticket[w] = turn

(***************************************************************************)
(* Further properties of the linked list.                                  *)
(***************************************************************************)
\* the thread holds the list lock or the lock of a node
HoldsListLock(w) == llock = w \/ \E n \in Nodes : nlock[n] = w

\* the step is the return of a list_insert of thread w
InsertReturns(w) == InsertInProgress(w) /\ lpc'[w] = "idle"

\* C17: a list_insert that returns without a node (its malloc returned NULL)
\* returns -1, holds no lock, and its return leaves head, the nodes and the
\* locks as they were; a list_insert that returns with a node returns 0 and
\* the node is on the chain with the key asked for.
AllocFailureAborts ==
  [][\A w \in LThreads :
       InsertReturns(w) =>
         IF ln[w] = NULL
         THEN /\ lrv'[w] = -1
              /\ ~HoldsListLock(w)
              /\ UNCHANGED <<lhead, llock, nalloc, nkey, nnext, nlock>>
         ELSE /\ lrv'[w] = 0
              /\ ln[w] \in ChainSet
              /\ nkey[ln[w]] = lkey[w]]_vars

\* C17 witness: in hand-over-hand mode a list_insert has returned -1 while
\* the list holds a node and another thread holds the list lock.
AllocFailureWitness ==
  \E w, v \in LThreads :
    /\ lhoh = 1
    /\ w # v
    /\ Returned(w, "insert")
    /\ lrv[w] = -1
    /\ lhead # NULL
    /\ llock = v

(***************************************************************************)
(* Further properties of the approximate counter.                          *)
(***************************************************************************)
\* C19 as the claim states it: whatever the shard id, the index cpu that
\* approx_update locks and increments is shard id modulo ncpu, an index of
\* local[0..ncpu-1].
ShardSelectionTotal ==
  \A t \in CThreads :
    cpc[t] \notin {"loop", "u_lock", "done"} =>
      /\ ccpu[t] \in Shards
      /\ ccpu[t] = Tid(t) % cncpu

(***************************************************************************)
(* Properties of the fork/join runs and of the locks of all programs.      *)
(***************************************************************************)
\* every worker of the run has made its iterations and main has joined it
RunComplete ==
  /\ tw > 0 => (tmain = "end" /\ \A w \in TWorkers : ti[w] = tn)
  /\ cnt > 0 => (cmain = "end" /\ \A t \in CThreads : ci[t] = cit)
  /\ lnt > 0 => (lmain = "end" /\ lops = lno)
  /\ hnt > 0 => (hmain = "end" /\ \A w \in HThreads : hi[w] = hnops)

HoldsCounterLock(t) == cglock = t \/ \E s \in Shards : cllock[s] = t

\* the hash worker holds the table lock or a bucket lock
HoldsHashLock(w) == hglock = w \/ \E b \in Buckets : hblock[b] = w

\* C15: a thread that is not inside approx_update, approx_get, list_insert,
\* list_lookup or hash_insert holds none of the locks: every return of these
\* functions, the early ones included, has released what the call locked.
LocksReleased ==
  /\ \A t \in CThreads : cpc[t] \in {"loop", "done"} => ~HoldsCounterLock(t)
  /\ cmain \in {"run", "joined", "end"} => ~HoldsCounterLock(-1)
  /\ \A w \in LThreads : lpc[w] = "idle" => ~HoldsListLock(w)
  /\ \A w \in HThreads : hpc[w] \in {"loop", "done"} => ~HoldsHashLock(w)

\* C15 witness: in hand-over-hand mode a list_lookup has returned 0 from
\* inside its loop, and the node it found is unlocked.
LocksReleasedWitness ==
  \E w \in LThreads :
    /\ lhoh = 1
    /\ Returned(w, "lookup")
    /\ lrv[w] = 0
    /\ lhead # NULL
    /\ nkey[lhead] = lkey[w]
    /\ nlock[lhead] = 0

\* the workers that have passed Sem_wait(&m->room) and not yet posted it
RoomHolder(w) ==
  tpc[w] \in {"a_mutex", "a_ticket", "a_unmutex", "a_queue", "a_leave"}

\* the workers that have passed Sem_wait(&m->mutex) and not yet posted it
MutexHolder(w) ==
  tpc[w] \in {"a_ticket", "a_unmutex", "r_turn", "r_post", "r_unmutex"}

\* for each worker, the workers it waits for: those that hold the semaphore
\* its next statement waits on, when that semaphore is 0
TicketWaits ==
  [w \in TWorkers |->
     IF tpc[w] = "a_room" /\ room = 0
       THEN {v \in TWorkers : RoomHolder(v)}
     ELSE IF tpc[w] \in {"a_mutex", "r_mutex"} /\ mutex = 0
       THEN {v \in TWorkers : MutexHolder(v)}
     ELSE IF tpc[w] = "a_queue" /\ queue[my_ticket[w] % MAX_THREADS] = 0
       THEN {v \in TWorkers : HoldsSlot(v)}
     ELSE {}]

\* for each counter thread, and for run_q3 (thread -1) in approx_get, the
\* holder of the lock its next statement takes, when that lock is held
CounterWaits ==
  [t \in CThreads \cup {-1} |->
     IF t = -1
       THEN (IF cmain = "joined" THEN {cglock} \ {0} ELSE {})
     ELSE IF cpc[t] = "u_lock"
       THEN {cllock[CRem(Tid(t), cncpu)]} \ {0}
     ELSE IF cpc[t] = "u_glock"
       THEN {cglock} \ {0}
     ELSE {}]

\* for each list thread, the holder of the lock its next statement takes,
\* when that lock is held
ListWaits ==
  [w \in LThreads |->
     IF lpc[w] \in {"i_lock", "s_lock", "k_lock"}
       THEN {llock} \ {0}
     ELSE IF lpc[w] = "h_lockhead" /\ lhead # NULL
       THEN {nlock[lhead]} \ {0}
     ELSE IF lpc[w] = "k_lockc" /\ lc[w] # NULL
       THEN {nlock[lc[w]]} \ {0}
     ELSE IF lpc[w] = "k_lockn" /\ ln[w] # NULL
       THEN {nlock[ln[w]]} \ {0}
     ELSE {}]

RECURSIVE Reaches(_, _, _)
\* the threads met from the threads of S by following W at most n times
Reaches(W, S, n) ==
  IF n = 0 THEN S
  ELSE Reaches(W, S \cup UNION {W[v] : v \in S}, n - 1)

\* no thread waits, through any chain of waits, for itself
NoWaitCycle(W) ==
  \A w \in DOMAIN W :
    W[w] = {} \/ w \notin Reaches(W, W[w], Cardinality(DOMAIN W))

\* list lock before node lock, a node's lock before its successor's
ListLockOrder ==
  \A w \in LThreads :
    /\ lpc[w] \in {"i_lock", "s_lock", "k_lock"} => ~HoldsListLock(w)
    /\ lpc[w] \in {"h_lockhead", "k_lockc"} =>
         (llock = w /\ \A n \in Nodes : nlock[n] # w)
    /\ lpc[w] = "k_lockn" =>
         /\ llock # w
         /\ \A n \in Nodes : nlock[n] = w <=> n = lc[w]
         /\ ln[w] = nnext[lc[w]]

\* shard lock before global lock
CounterLockOrder ==
  \A t \in CThreads :
    /\ cpc[t] = "u_lock" => ~HoldsCounterLock(t)
    /\ cpc[t] = "u_glock" =>
         /\ cglock # t
         /\ \A s \in Shards : cllock[s] = t <=> s = ccpu[t]

\* room before mutex: each semaphore is 1 less the workers that hold it, a
\* worker that takes the mutex inside ns_mutex_acquire holds the room, and a
\* worker that waits for its slot waits for a worker that holds the lock
TicketSemOrder ==
  /\ room + Cardinality({w \in TWorkers : RoomHolder(w)}) = 1
  /\ mutex + Cardinality({w \in TWorkers : MutexHolder(w)}) = 1
  /\ \A w \in TWorkers :
       (tpc[w] = "a_queue" /\ queue[my_ticket[w] % MAX_THREADS] = 0)
         => \E v \in TWorkers : v # w /\ HoldsSlot(v)

\* C16: nested acquisitions follow the order list lock, node, successor
\* node; shard lock, global lock; room, mutex; and no thread waits, through
\* any chain of threads each waiting for a lock the next one holds, for
\* itself.
LockOrdering ==
  /\ ListLockOrder
  /\ CounterLockOrder
  /\ TicketSemOrder
  /\ NoWaitCycle(ListWaits)
  /\ NoWaitCycle(CounterWaits)
  /\ NoWaitCycle(TicketWaits)

\* C16 witness: a hand-over-hand insert holds the list lock and waits for
\* the lock of the head node, which a lookup holds while it goes for the
\* node's successor.
LockOrderingWitness ==
  \E w, v \in LThreads :
    /\ lhoh = 1
    /\ lpc[v] = "h_lockhead"
    /\ llock = v
    /\ lhead # NULL
    /\ nlock[lhead] = w
    /\ lpc[w] = "k_lockn"
    /\ ListWaits[v] = {w}

(***************************************************************************)
(* The queueing room of ns_mutex_acquire.                                  *)
(***************************************************************************)
\* the worker is between the return of Sem_wait(&m->room) and the return of
\* Sem_wait(&m->queue[my_ticket % MAX_THREADS])
InFlight(w) == tpc[w] \in {"a_mutex", "a_ticket", "a_unmutex", "a_queue"}

\* C21: at most one worker is between Sem_wait(room) and the return of its
\* wait on its slot, hence at most one holds a ticket that was not granted;
\* the room is closed while there is one, and stays closed until that
\* worker's wait on its slot has returned and it executes line 36.
SingleTicketInFlight ==
  /\ \A w, v \in TWorkers : (InFlight(w) /\ InFlight(v)) => w = v
  /\ \A w \in TWorkers : (InFlight(w) \/ tpc[w] = "a_leave") => room = 0
  /\ room \in {0, 1}

\* C21 witness: a worker holds a ticket and waits on its slot, which is 0
\* because another worker holds the lock, while a third one waits for the
\* room.
SingleTicketWitness ==
  \E w, v, u \in TWorkers :
    /\ tpc[w] = "a_queue"
    /\ queue[my_ticket[w] % MAX_THREADS] = 0
    /\ tpc[v] \in {"cs_read", "cs_write"}
    /\ tpc[u] = "a_room"

(***************************************************************************)
(* The flush inside approx_update.                                         *)
(***************************************************************************)
\* the thread is inside approx_update, after its pthread_mutex_lock of the
\* shard lock and before its unlock
InUpdate(t) ==
  cpc[t] \in {"u_inc", "u_test", "u_glock", "u_add", "u_gunlock", "u_reset",
              "u_unlock"}

\* the locks held at each statement of approx_update, and the value of
\* local[cpu] there
FlushLocks ==
  \A t \in CThreads :
    /\ InUpdate(t) => (ccpu[t] \in Shards /\ cllock[ccpu[t]] = t)
    /\ cpc[t] \in {"u_add", "u_gunlock"} <=> cglock = t
    /\ cpc[t] \in {"u_glock", "u_add", "u_gunlock"} => clocal[ccpu[t]] >= cth
    /\ cpc[t] = "u_unlock" =>
         (clocal[ccpu[t]] = 0 \/ clocal[ccpu[t]] < cth)

\* a step that changes local[s] is the ++ or the reset of the thread that
\* holds the lock of s; a step that changes global adds the whole of
\* local[cpu], by the thread that holds the global lock and its shard's lock
FlushSteps ==
  /\ \A s \in Shards :
       clocal'[s] # clocal[s] =>
         \E t \in CThreads :
           /\ cllock[s] = t
           /\ ccpu[t] = s
           /\ \/ cpc[t] = "u_inc" /\ clocal'[s] = clocal[s] + 1
              \/ cpc[t] = "u_reset" /\ clocal'[s] = 0
  /\ cglobal' # cglobal =>
       \E t \in CThreads :
         /\ cpc[t] = "u_add"
         /\ cglock = t
         /\ cllock[ccpu[t]] = t
         /\ cglobal' = cglobal + clocal[ccpu[t]]

\* C22, amended: approx_update increments local[cpu] only while it holds the
\* shard's lock; exactly when local[cpu] >= threshold it takes the global
\* lock with the shard lock held and adds the whole local value to global;
\* it releases the global lock, then resets local[cpu] to zero holding the
\* shard lock alone, then releases the shard lock; between the addition and
\* the reset no other thread reads or writes local[cpu].
FlushProtocol == []FlushLocks /\ [][FlushSteps]_vars

\* C22, as claimed: the reset of local[cpu] is made before the global lock
\* is released, that is by a thread that holds the global lock.
ResetUnderGlobalLock == \A t \in CThreads : cpc[t] = "u_reset" => cglock = t

\* C22 witness: a thread has added its local value to global and released
\* the global lock, its local value is not yet reset, and another thread
\* already holds the global lock for its own flush.
FlushProtocolWitness ==
  \E t, v \in CThreads :
    /\ t # v
    /\ cpc[t] = "u_reset"
    /\ clocal[ccpu[t]] > 0
    /\ cllock[ccpu[t]] = t
    /\ cpc[v] = "u_add"
    /\ cglock = v

(***************************************************************************)
(* Hand-over-hand locking.                                                 *)
(***************************************************************************)
\* the thread is inside the hand-over-hand branch of list_lookup
InHohLookup(w) ==
  lpc[w] \in {"k_lock", "k_head", "k_lockc", "k_unlockL", "k_test", "k_found",
              "k_next", "k_lockn", "k_unlockc"}

\* C23: a thread inside a hand-over-hand list_lookup holds no node lock but
\* those of its current node c and of the next node n, at most two; when it
\* releases the list lock it holds the lock of the first node, when it
\* releases the lock of c it holds the lock of n, and where it reads c->key
\* or c->next it holds the lock of c.
HohCoupling ==
  \A w \in LThreads :
    InHohLookup(w) =>
      /\ \A n \in Nodes : nlock[n] = w => (n = lc[w] \/ n = ln[w])
      /\ lpc[w] = "k_unlockL" =>
           (llock = w /\ (lc[w] # NULL => nlock[lc[w]] = w))
      /\ lpc[w] = "k_unlockc" =>
           (nlock[lc[w]] = w /\ (ln[w] # NULL => nlock[ln[w]] = w))
      /\ (lpc[w] \in {"k_test", "k_found", "k_next", "k_lockn"} /\ lc[w] # NULL)
           => nlock[lc[w]] = w

\* C23 witness: a lookup that has passed the first node holds the locks of
\* its current node and of the next one, and is about to release the former.
HohCouplingWitness ==
  \E w \in LThreads :
    /\ lhoh = 1
    /\ lpc[w] = "k_unlockc"
    /\ ln[w] # NULL
    /\ lc[w] # ln[w]
    /\ nlock[lc[w]] = w
    /\ nlock[ln[w]] = w

\* the thread is inside the hand-over-hand branch of list_insert, after
\* its pthread_mutex_lock(&L->lock)
InHohInsert(w) ==
  /\ lhoh = 1
  /\ lpc[w] \in {"h_lockhead", "i_next", "i_head", "h_unlocknext", "i_unlock"}

\* C24: a hand-over-hand list_insert holds the list lock from line 97 to
\* line 101; when it writes n->next and L->head it holds the lock of the old
\* head, if there is one, so no lookup holds it; after the relink it still
\* holds the lock of n's successor, and it holds no node lock any more when
\* it releases the list lock.
HohInsertOrder ==
  \A w \in LThreads :
    InHohInsert(w) =>
      /\ llock = w
      /\ (lpc[w] \in {"i_next", "i_head"} /\ lhead # NULL) =>
           /\ nlock[lhead] = w
           /\ \A v \in LThreads : InHohLookup(v) => lc[v] # lhead
      /\ lpc[w] = "h_unlocknext" =>
           /\ lhead = ln[w]
           /\ nnext[ln[w]] # NULL => nlock[nnext[ln[w]]] = w
      /\ lpc[w] \in {"h_lockhead", "i_unlock"} =>
           \A n \in Nodes : nlock[n] # w

\* C24 witness: an insert into a non-empty list holds the list lock and the
\* old head's lock and is about to publish its node, while a lookup waits
\* for the list lock.
HohInsertWitness ==
  \E w, v \in LThreads :
    /\ InHohInsert(w)
    /\ lpc[w] = "i_head"
    /\ lhead # NULL
    /\ nnext[ln[w]] = lhead
    /\ nlock[lhead] = w
    /\ lpc[v] = "k_lock"

(***************************************************************************)
(* The bucket index.                                                       *)
(***************************************************************************)
\* C25: whatever int k is and whatever nb > 0 the table has, the value b
\* that hfunc returns has 0 <= b < nb and is congruent to k modulo nb.
BucketIndexNormalized ==
  fpc = "ret" => (fb \in 0..(fnb - 1) /\ fb = fk % fnb)

(***************************************************************************)
(* The ticket lock with more callers than slots.                           *)
(***************************************************************************)
\* the worker's wait on its slot has returned and it has not yet executed
\* m->turn++
HasTurn(w) == tpc[w] \in {"a_leave", "cs_read", "cs_write", "r_mutex", "r_turn"}

\* C26: with any number of workers and of slots, 0 <= ticket - turn <= 2 and
\* the ticket of the worker that holds the lock is turn; no two workers wait
\* on a slot at once, at most one worker holds the lock, and the tickets
\* are granted in their order 0, 1, 2, ...
TicketWindow ==
  /\ ticket - turn \in {0, 1, 2}
  /\ \A w \in TWorkers : HasTurn(w) => my_ticket[w] = turn
  /\ \A w, v \in TWorkers :
       (tpc[w] = "a_queue" /\ tpc[v] = "a_queue") => w = v
  /\ \A w, v \in TWorkers : (HasTurn(w) /\ HasTurn(v)) => w = v
  /\ \A i \in DOMAIN grants : grants[i] = i - 1

\* C26 witness: more workers than slots are inside ns_mutex_acquire or hold
\* the lock, the tickets have gone round the slots, and the one that waits
\* has the slot the holder was granted on.
TicketWindowWitness ==
  \E w, v, u \in TWorkers :
    /\ tw > tslots
    /\ ticket > tslots
    /\ ticket - turn = 2
    /\ HasTurn(w)
    /\ tpc[v] = "a_queue"
    /\ my_ticket[v] % tslots = my_ticket[w] % tslots
    /\ tpc[u] = "a_room"

(***************************************************************************)
(* How far approx_get is from the number of increments.                    *)
(***************************************************************************)
\* no thread is inside approx_update
NoUpdateInProgress == \A t \in CThreads : cpc[t] \in {"loop", "done"}

\* the calls of approx_update that have returned
Completed == SumOver(ci, CThreads)

\* C27: when no approx_update is in progress, with a threshold T >= 1 each
\* local[s] is in 0..T-1 and global is a multiple of T, not above the number
\* of completed increments and short of it by at most ncpu * (T - 1); with
\* T <= 0 every local[s] is 0 and global is that number.  What approx_get
\* returns to run_q3 is within the same distance of it.
ErrorBound ==
  NoUpdateInProgress =>
    /\ cth >= 1 =>
         /\ \A s \in Shards : clocal[s] \in 0..(cth - 1)
         /\ cglobal % cth = 0
         /\ cglobal <= Completed
         /\ Completed - cglobal <= cncpu * (cth - 1)
    /\ cth <= 0 =>
         /\ \A s \in Shards : clocal[s] = 0
         /\ cglobal = Completed
    /\ cmain = "end" =>
         /\ ctotal <= Completed
         /\ Completed - ctotal <= (IF cth >= 1 THEN cncpu * (cth - 1) ELSE 0)

\* C27 witness: no approx_update is in progress, part of the increments is
\* flushed, and the residue of each of two shards is T - 1, so that global
\* is short of the completed increments by the whole of ncpu * (T - 1).
ErrorBoundWitness ==
  /\ NoUpdateInProgress
  /\ cth >= 2
  /\ cncpu = 2
  /\ cglobal > 0
  /\ \A s \in Shards : clocal[s] = cth - 1
  /\ Completed - cglobal = cncpu * (cth - 1)

(***************************************************************************)
(* Properties of the reader-writer lock.                                   *)
(***************************************************************************)
\* the reader is in its read section: rwlock_acquire_readlock has returned
\* and rwlock_release_readlock is not yet called
ReaderInside(t) == rpc[t] = "read"

\* the writer is in its write section: its Sem_wait(&rw->writelock) has
\* returned and its Sem_post is not yet executed
WriterInside(t) == rpc[t] \in {"w_load", "w_store", "rw_post"}

\* writelock is taken and no writer has it: it was taken by the first
\* reader at line 22 and not yet given back by the last one at line 31
GroupHolds == writelock = 0 /\ \A t \in RWriters : ~WriterInside(t)

\* the reader is counted in rw->readers
Counted(t) ==
  rpc[t] \in {"ar_test", "ar_wlock", "ar_unlock", "read", "rr_lock", "rr_dec"}

\* the reader is past line 22 of its acquire and, if it is the last one
\* out, not past line 31 of its release
UnderWritelock(t) ==
  \/ rpc[t] \in {"ar_unlock", "read", "rr_lock", "rr_dec"}
  \/ rpc[t] \in {"rr_test", "rr_wpost"} /\ readers = 0
  \/ rpc[t] = "ar_test" /\ readers > 1

\* C28, amended: at most one writer is in the write section and then no
\* reader is in the read section; readers >= 0, and it counts the readers
\* between lines 20 and 29; whenever a reader is in the read section
\* writelock is held for the readers; it is held for them exactly from the
\* return of the first reader's Sem_wait at line 22 to the last reader's
\* Sem_post at line 31, which begins before the first reader is in its read
\* section and ends after the last one has left it.
RWExclusion ==
  /\ writelock \in {0, 1}
  /\ lock \in {0, 1}
  /\ \A t, u \in RWriters : (WriterInside(t) /\ WriterInside(u)) => t = u
  /\ \A t \in RWriters : WriterInside(t) => \A u \in RReaders : ~ReaderInside(u)
  /\ readers >= 0
  /\ \A t \in RReaders : Counted(t) => readers >= 1
  /\ \A t \in RReaders : ReaderInside(t) => GroupHolds
  /\ GroupHolds <=> \E t \in RReaders : UnderWritelock(t)

\* C28, as claimed: writelock is held for the readers exactly when a reader
\* is in the read section.
HeldIffReaderInside == GroupHolds <=> \E t \in RReaders : ReaderInside(t)

\* C28 witness: two readers are in the read section at once while a writer
\* waits for writelock.
RWExclusionWitness ==
  \E t, u \in RReaders, v \in RWriters :
    /\ t # u
    /\ ReaderInside(t)
    /\ ReaderInside(u)
    /\ readers = 2
    /\ rpc[v] = "aw_wait"
    /\ GroupHolds

Printed(line) == \E i \in 1..Len(stdout) : stdout[i] = line

\* a thread has printed its pre-rendezvous line and posted its semaphore
Arrived(t) ==
  /\ Printed(IF t = "a" THEN "A: doing work before rendezvous"
                        ELSE "B: doing work before rendezvous")
  /\ zpc[t] \in {"wait", "asleep", "cont", "ret", "done"}

\* a thread is past its Sem_wait
Passed(t) == zpc[t] \in {"cont", "ret", "done"}

RendezvousSafe ==
  /\ \A t \in {"a", "b"} : Passed(t) => (Arrived("a") /\ Arrived("b"))
  /\ Printed("A: continuing after rendezvous") => (Arrived("a") /\ Arrived("b"))
  /\ Printed("B: continuing after rendezvous") => (Arrived("a") /\ Arrived("b"))

BothContinued ==
  /\ Printed("A: continuing after rendezvous")
  /\ Printed("B: continuing after rendezvous")

\* C29: neither thread is past its rendezvous point, nor has its
\* "continuing after rendezvous" line been printed, before both threads have
\* printed their pre-rendezvous line and posted their semaphore; and, every
\* thread that can step eventually stepping, both threads eventually print
\* their "continuing after rendezvous" line.
Rendezvous == []RendezvousSafe /\ <>BothContinued

\* C29 witness: thread A has printed its continuing line and returned while
\* thread B, which has posted, has not yet come back from its Sem_wait.
RendezvousWitness ==
  /\ zpc["a"] = "done"
  /\ zpc["b"] \in {"wait", "asleep"}
  /\ Printed("A: continuing after rendezvous")
  /\ ~Printed("B: continuing after rendezvous")
  /\ sem_a = 1

=============================================================================
